---------------------------- MODULE Spec2Model ----------------------------
(***************************************************************************)
(* Routing-and-capacity control loop of the vidur autoscaling simulator:   *)
(* the Round-Robin and Least-Outstanding-Requests global schedulers and    *)
(* the Inferline / Custom autoscalers with their network envelopes.        *)
(*                                                                         *)
(* Spec      : global scheduler (both policies) under AddRequest,          *)
(*             MarkReplicaDraining, MarkReplicaToFree and Schedule.        *)
(* SpecRR    : a Round-Robin scheduler with a fixed draining set under     *)
(*             AddRequest and Schedule, its assignments tallied.           *)
(* SpecAuto  : one autoscaler (Inferline, or Custom at a service level)    *)
(*             under the clock, on_request_arrival, on_batch_end, the      *)
(*             driver's fleet changes and tune.                            *)
(* SpecLive  : one scheduler of each policy whose Schedule is called again *)
(*             and again (weak fairness).                                  *)
(* SpecTune  : one autoscaler entered in any state of its log, estimate    *)
(*             and fleet, every call recorded and every returned delta     *)
(*             registered before the next tune.                            *)
(* SpecRepeat: one autoscaler whose tune is repeated at one instant, each  *)
(*             delta registered in the pending counters.                   *)
(* SpecCalls : one autoscaler under the clock, on_request_arrival,         *)
(*             on_batch_end and tune, every call recorded.                 *)
(* SpecEnv   : one NetworkEnvelope driven alone by arrivals and queries    *)
(*             of any window size and look-back time.                      *)
(*                                                                         *)
(* Times are counted in half seconds (Units) and rates are exact fractions *)
(* <<numerator, denominator>> of tokens per second.                        *)
(***************************************************************************)
EXTENDS Integers, Sequences, FiniteSets, TLC

(***************************************************************************)
(* Bounds of the model.                                                    *)
(***************************************************************************)
MaxRequests == 3        \* requests ever added along one behaviour
MaxArrival == 1         \* arrival timestamps are drawn from 0..MaxArrival

\* cluster size of the scheduler tests (ClusterConfig(num_replicas=3))
NumReplicas == 3

\* Replica identities: neither contiguous nor starting at zero.
ReplicaIds == {2 * i + 1 : i \in 1..NumReplicas}

\* <<len(_request_queue), len(_allocation_map)>> of a replica scheduler, as the
\* LOR tests build them: create_mock_replica_scheduler(id, 0, 0), (id, 0, 1)
\* and (id, 2, 1)
ReplicaLoads == {<<0, 0>>, <<0, 1>>, <<2, 1>>}

\* Python's None as returned by mark_replica_to_free
None == -1

VARIABLES
    policy,                    \* "RR" | "LOR": the scheduler class in use
    replica_schedulers,        \* keys of _replica_schedulers in dict iteration order
    replica_request_queue,     \* replica id -> len(replica_scheduler._request_queue)
    replica_allocation_map,    \* replica id -> len(replica_scheduler._allocation_map)
    request_queue,             \* self._request_queue
    replicas_to_free,          \* self._replicas_to_free (the draining set)
    request_counter,           \* RoundRobinGlobalScheduler._request_counter
    next_request_id,           \* identity given to the next added request
    call,                      \* the operation that produced this state
    request_mapping,           \* value returned by the last schedule()
    replica_to_free,           \* value returned by the last mark_replica_to_free()
    returned,                  \* request id -> number of assignments returned for it
    assigned,                  \* per replica: the number of pairs returned that name it, where
                               \* the specification tallies them (SpecRR)
    autoscaler,                \* "inferline" | "custom": the autoscaler class in use
    service_level,             \* autoscaler_config.service_level (custom)
    clock,                     \* simulation time, the argument of tune()
    arrivals,                  \* NetworkEnvelope._arrivals: <<arrived_at, tokens>>
    replica_token_throughput,  \* self._replica_token_throughput
    last_scale_up_time,        \* self._last_scale_up_time
    last_scale_down_time,      \* self._last_scale_down_time (custom)
    num_replicas,              \* self.num_replicas: live replicas
    num_pending_scale_ups,     \* self._num_pending_scale_ups
    num_pending_scale_downs,   \* self._num_pending_scale_downs
    num_arrivals,              \* on_request_arrival calls so far
    num_batches,               \* on_batch_end calls so far
    delta,                     \* value returned by tune(), 0 after any other call
    t_up,                      \* time of the last tune() that returned a delta > 0
    in_window,                 \* that tune() ran less than stabilization_delay after t_up
    cooling,                   \* that tune() ran inside the custom scale-down cooldown
    down_justified,            \* that tune() would have returned a delta < 0 were can_scale_down true
    last_batch,                \* the batch handed to on_batch_end when calls are recorded
    max_request_rate,          \* value returned by the last get_max_request_rate()
    query_window_size,         \* window_size argument of that query
    query_look_back_time,      \* look_back_time argument of the last query
    query_time,                \* time argument of the last query, None before any
    query_num_arrivals,        \* arrivals recorded before the last query
    query_gap,                 \* how long after the reach of the query before it, with the same
                               \* look_back_time and no arrival in between, that query came
    window_starts              \* the window_start of every window the last query summed, in
                               \* order, each as <<numerator, denominator>>

schedVars == <<policy, replica_schedulers, replica_request_queue,
               replica_allocation_map, request_queue, replicas_to_free,
               request_counter, next_request_id, call, request_mapping,
               replica_to_free, returned, assigned>>

schedRest == <<policy, replica_schedulers, replica_request_queue,
               replica_allocation_map, request_queue, replicas_to_free,
               request_counter, next_request_id, request_mapping,
               replica_to_free, returned, assigned>>

envVars == <<max_request_rate, query_window_size, query_look_back_time,
             query_time, query_num_arrivals, query_gap, window_starts>>

autoVars == <<autoscaler, service_level, clock, arrivals, replica_token_throughput,
              last_scale_up_time, last_scale_down_time, num_replicas,
              num_pending_scale_ups, num_pending_scale_downs, num_arrivals,
              num_batches, delta, t_up, in_window, cooling, down_justified,
              last_batch, envVars>>

vars == <<schedVars, autoVars>>

(***************************************************************************)
(* Helpers on sequences.                                                   *)
(***************************************************************************)
Range(s) == {s[i] : i \in 1..Len(s)}

Perms(S) == {s \in [1..Cardinality(S) -> S] : Range(s) = S}

\* BaseGlobalScheduler.sort_requests: in-place stable sort on arrived_at; the
\* request at position i goes behind those that arrived before it and those
\* that arrived with it and were inserted earlier
sort_requests(queue) ==
    LET Before(i) == Cardinality({j \in 1..Len(queue) :
                        \/ queue[j].arrived_at < queue[i].arrived_at
                        \/ queue[j].arrived_at = queue[i].arrived_at /\ j < i})
    IN [k \in 1..Len(queue) |->
           queue[CHOOSE i \in 1..Len(queue) : Before(i) = k - 1]]

RECURSIVE sorted(_)
\* Python's sorted() on a collection of replica ids
sorted(S) ==
    IF S = {} THEN <<>>
    ELSE LET m == CHOOSE x \in S : \A y \in S : x <= y
         IN <<m>> \o sorted(S \ {m})

\* BaseGlobalScheduler.check_replica_to_free
check_replica_to_free(replica_id) == replica_id \in replicas_to_free

\* mutant: the in-flight allocations are left out of the load
outstanding_requests_QueueOnly(replica_id) == replica_request_queue[replica_id]

\* len(replica_scheduler._request_queue) + len(replica_scheduler._allocation_map)
outstanding_requests(replica_id) ==
    replica_request_queue[replica_id] + replica_allocation_map[replica_id]

(***************************************************************************)
(* RoundRobinGlobalScheduler.schedule                                      *)
(***************************************************************************)
\* mutant: schedule() without its sort_requests() call
RRSortedQueue_NoSort(queue) == queue

\* self.sort_requests() at the head of schedule()
RRSortedQueue(queue) == sort_requests(queue)

\* mutant: the draining filter is missing
RRAvailableReplicaIds_NoFilter == sorted(Range(replica_schedulers))

\* mutant: the candidates are left in dict iteration order
RRAvailableReplicaIds_Unsorted ==
    SelectSeq(replica_schedulers, LAMBDA replica_id : ~check_replica_to_free(replica_id))

\* available_replica_ids = sorted([id for id in keys if not check_replica_to_free(id)])
RRAvailableReplicaIds ==
    sorted({replica_id \in Range(replica_schedulers) :
               ~check_replica_to_free(replica_id)})

\* mutant: "if self._request_queue" in place of "while": one request per call
RRLoop_Once(queue, counter, available_replica_ids, mapping) ==
    IF queue = <<>>
    THEN [queue |-> queue, counter |-> counter, mapping |-> mapping]
    ELSE [queue |-> Tail(queue), counter |-> counter + 1,
          mapping |-> Append(mapping,
                <<available_replica_ids[(counter % Len(available_replica_ids)) + 1],
                  Head(queue)>>)]

RECURSIVE RRLoop_FromCount(_, _, _, _)
\* mutant: "replica_id = self._request_counter % self._num_replicas", the
\* identity rebuilt from the replica count
RRLoop_FromCount(queue, counter, available_replica_ids, mapping) ==
    IF queue = <<>>
    THEN [queue |-> queue, counter |-> counter, mapping |-> mapping]
    ELSE LET request == Head(queue)
             replica_id == counter % Len(replica_schedulers)
         IN RRLoop_FromCount(Tail(queue), counter + 1, available_replica_ids,
                             Append(mapping, <<replica_id, request>>))

RECURSIVE RRLoop_Wrapped(_, _, _, _)
\* mutant: the counter is kept modulo the number of candidates
RRLoop_Wrapped(queue, counter, available_replica_ids, mapping) ==
    IF queue = <<>>
    THEN [queue |-> queue, counter |-> counter, mapping |-> mapping]
    ELSE LET request == Head(queue)
             replica_idx == counter % Len(available_replica_ids)
             replica_id == available_replica_ids[replica_idx + 1]
         IN RRLoop_Wrapped(Tail(queue), (counter + 1) % Len(available_replica_ids),
                           available_replica_ids,
                           Append(mapping, <<replica_id, request>>))

RECURSIVE RRLoop_Restart(_, _, _, _)
\* mutant: every call starts its cycle at the first candidate
RRLoop_Restart(queue, counter, available_replica_ids, mapping) ==
    IF queue = <<>>
    THEN [queue |-> queue, counter |-> counter, mapping |-> mapping]
    ELSE LET request == Head(queue)
             replica_idx == Len(mapping) % Len(available_replica_ids)
             replica_id == available_replica_ids[replica_idx + 1]
         IN RRLoop_Restart(Tail(queue), counter + 1, available_replica_ids,
                           Append(mapping, <<replica_id, request>>))

RECURSIVE RRLoop_Stall(_, _, _, _)
\* mutant: the loop stops while one request is still queued
RRLoop_Stall(queue, counter, available_replica_ids, mapping) ==
    IF Len(queue) <= 1
    THEN [queue |-> queue, counter |-> counter, mapping |-> mapping]
    ELSE LET request == Head(queue)
             replica_idx == counter % Len(available_replica_ids)
             replica_id == available_replica_ids[replica_idx + 1]
         IN RRLoop_Stall(Tail(queue), counter + 1, available_replica_ids,
                         Append(mapping, <<replica_id, request>>))

RECURSIVE RRLoop(_, _, _, _)
\* while self._request_queue: pop(0), pick by counter modulo, count, append
RRLoop(queue, counter, available_replica_ids, mapping) ==
    IF queue = <<>>
    THEN [queue |-> queue, counter |-> counter, mapping |-> mapping]
    ELSE LET request == Head(queue)
             replica_idx == counter % Len(available_replica_ids)
             replica_id == available_replica_ids[replica_idx + 1]
         IN RRLoop(Tail(queue), counter + 1, available_replica_ids,
                   Append(mapping, <<replica_id, request>>))

\* mutant: the queue is emptied before the availability check
RRNoneAvailable_Drop(queue, counter) ==
    [queue |-> <<>>, counter |-> counter, mapping |-> <<>>]

\* the early return of schedule() when no replica is available
RRNoneAvailable(queue, counter) ==
    [queue |-> queue, counter |-> counter, mapping |-> <<>>]

RRSchedule(queue, counter) ==
    LET q == RRSortedQueue(queue)
        available_replica_ids == RRAvailableReplicaIds
    IN IF available_replica_ids = <<>>
       THEN RRNoneAvailable(q, counter)
       ELSE RRLoop(q, counter, available_replica_ids, <<>>)

(***************************************************************************)
(* LORGlobalScheduler.schedule and mark_replica_to_free                    *)
(***************************************************************************)
\* self.sort_requests() at the head of schedule()
LORSortedQueue(queue) == sort_requests(queue)

\* available_replica_ids = [id for id in keys if not check_replica_to_free(id)]
LORAvailableReplicaIds ==
    SelectSeq(replica_schedulers, LAMBDA replica_id : ~check_replica_to_free(replica_id))

\* mutant: "<=" in place of "<", the last of the tied candidates wins
LORBetter_LastOnTie(outstanding, selected_replica_id, min_outstanding_requests) ==
    selected_replica_id = None \/ outstanding <= min_outstanding_requests

\* if outstanding_requests < min_outstanding_requests (min starts at float('inf'))
LORBetter(outstanding, selected_replica_id, min_outstanding_requests) ==
    selected_replica_id = None \/ outstanding < min_outstanding_requests

RECURSIVE LORSelect(_, _, _)
\* the inner for loop of schedule(): first strict minimum in candidate order
LORSelect(candidates, selected_replica_id, min_outstanding_requests) ==
    IF candidates = <<>> THEN selected_replica_id
    ELSE LET replica_id == Head(candidates)
             outstanding == outstanding_requests(replica_id)
         IN IF LORBetter(outstanding, selected_replica_id, min_outstanding_requests)
            THEN LORSelect(Tail(candidates), replica_id, outstanding)
            ELSE LORSelect(Tail(candidates), selected_replica_id,
                           min_outstanding_requests)

RECURSIVE LORSelectRebalanced(_, _, _, _)
LORSelectRebalanced(candidates, selected_replica_id, min_outstanding_requests, mapping) ==
    IF candidates = <<>> THEN selected_replica_id
    ELSE LET replica_id == Head(candidates)
             outstanding ==
                 outstanding_requests(replica_id)
                 + Cardinality({i \in 1..Len(mapping) : mapping[i][1] = replica_id})
         IN IF LORBetter(outstanding, selected_replica_id, min_outstanding_requests)
            THEN LORSelectRebalanced(Tail(candidates), replica_id, outstanding, mapping)
            ELSE LORSelectRebalanced(Tail(candidates), selected_replica_id,
                                     min_outstanding_requests, mapping)

RECURSIVE LORLoop_Rebalance(_, _, _)
\* mutant: every assignment of the batch is added to the chosen replica's load
LORLoop_Rebalance(queue, available_replica_ids, mapping) ==
    IF queue = <<>>
    THEN [queue |-> queue, mapping |-> mapping]
    ELSE LET selected_replica_id ==
                 LORSelectRebalanced(available_replica_ids, None, 0, mapping)
         IN LORLoop_Rebalance(Tail(queue), available_replica_ids,
                              Append(mapping, <<selected_replica_id, Head(queue)>>))

RECURSIVE LORLoop(_, _, _)
\* while self._request_queue: pop(0), select, append if selected is not None
LORLoop(queue, available_replica_ids, mapping) ==
    IF queue = <<>>
    THEN [queue |-> queue, mapping |-> mapping]
    ELSE LET request == Head(queue)
             selected_replica_id == LORSelect(available_replica_ids, None, 0)
         IN LORLoop(Tail(queue), available_replica_ids,
                    IF selected_replica_id # None
                    THEN Append(mapping, <<selected_replica_id, request>>)
                    ELSE mapping)

\* mutant: the queue is emptied before the availability check
LORNoneAvailable_Drop(queue) == [queue |-> <<>>, mapping |-> <<>>]

\* the early return of schedule() when no replica is available
LORNoneAvailable(queue) == [queue |-> queue, mapping |-> <<>>]

LORSchedule(queue) ==
    LET q == LORSortedQueue(queue)
        available_replica_ids == LORAvailableReplicaIds
    IN IF available_replica_ids = <<>>
       THEN LORNoneAvailable(q)
       ELSE LORLoop(q, available_replica_ids, <<>>)

\* mutant: replicas already marked are not skipped
MarkSkips_Never(replica_id) == FALSE

\* "if self.check_replica_to_free(replica_id): continue" in mark_replica_to_free
MarkSkips(replica_id) == check_replica_to_free(replica_id)

RECURSIVE MarkScan(_, _, _)
\* the for loop of mark_replica_to_free over _replica_schedulers.items()
MarkScan(items, selected, min_outstanding_requests) ==
    IF items = <<>> THEN selected
    ELSE LET replica_id == Head(items)
             outstanding == outstanding_requests(replica_id)
         IN IF MarkSkips(replica_id)
            THEN MarkScan(Tail(items), selected, min_outstanding_requests)
            ELSE IF selected = None \/ outstanding < min_outstanding_requests
                 THEN MarkScan(Tail(items), replica_id, outstanding)
                 ELSE MarkScan(Tail(items), selected, min_outstanding_requests)

(***************************************************************************)
(* Autoscalers.  Times are integers counting half time units, so that the  *)
(* window step window_size / 10.0 of every service level (3.5, 3.0, 2.0,   *)
(* 2.5, 4.5 time units) is an integer; token rates and the throughput      *)
(* estimate are exact fractions <<numerator, denominator>> in tokens per   *)
(* time unit, denominator > 0.                                             *)
(***************************************************************************)
\* t time units of the simulation, in model time
Units(t) == 2 * t

\* -float('inf'), the initial _last_scale_up_time / _last_scale_down_time
NegInf == -1000000

Min(a, b) == IF a <= b THEN a ELSE b

Max(a, b) == IF a >= b THEN a ELSE b

RECURSIVE GCD(_, _)
GCD(a, b) == IF b = 0 THEN a ELSE GCD(b, a % b)

\* a fraction in lowest terms
Norm(q) ==
    LET g == GCD(IF q[1] < 0 THEN -q[1] ELSE q[1], q[2])
    IN IF g = 0 THEN q ELSE <<q[1] \div g, q[2] \div g>>

Zero == <<0, 1>>

RateLess(a, b) == a[1] * b[2] < b[1] * a[2]

\* max(max_rate, rate)
RateMax(max_rate, rate) == IF RateLess(max_rate, rate) THEN rate ELSE max_rate

\* math.ceil(n / d) for d > 0
Ceil(n, d) == -((-n) \div d)

\* math.ceil(rate / throughput), throughput > 0
CeilRatio(rate, throughput) ==
    Ceil(rate[1] * throughput[2], rate[2] * throughput[1])

\* MockInferlineAutoscalerConfig, the configuration of the Inferline tests
InferlineConfig ==
    [min_window_size_scale_up |-> Units(20),
     min_window_size_scale_down |-> Units(20),
     look_back_time_scale_up |-> Units(80),
     look_back_time_scale_down |-> Units(80),
     stabilization_delay |-> Units(10),
     initial_replica_token_throughput |-> <<1, 1>>,
     throughput_alpha |-> <<1, 2>>]

\* CustomAutoscaler.init_service_level
CustomConfig(level) ==
    CASE level = 1 ->
           [look_back_time_scale_up |-> Units(70),
            look_back_time_scale_down |-> Units(50),
            min_window_size_scale_up |-> Units(35),
            min_window_size_scale_down |-> Units(25),
            stabilization_delay |-> Units(15),
            initial_replica_token_throughput |-> <<20, 1>>,
            throughput_alpha |-> <<2, 10>>,
            scale_up_threshold |-> <<105, 100>>,
            scale_down_threshold |-> <<85, 100>>,
            min_replicas |-> 1,
            max_scale_per_decision |-> 2]
      [] level = 3 ->
           [look_back_time_scale_up |-> Units(50),
            look_back_time_scale_down |-> Units(120),
            min_window_size_scale_up |-> Units(20),
            min_window_size_scale_down |-> Units(45),
            stabilization_delay |-> Units(50),
            initial_replica_token_throughput |-> <<20, 1>>,
            throughput_alpha |-> <<4, 10>>,
            scale_up_threshold |-> <<8, 10>>,
            scale_down_threshold |-> <<55, 100>>,
            min_replicas |-> 1,
            max_scale_per_decision |-> 3]
      [] OTHER ->
           [look_back_time_scale_up |-> Units(70),
            look_back_time_scale_down |-> Units(80),
            min_window_size_scale_up |-> Units(30),
            min_window_size_scale_down |-> Units(35),
            stabilization_delay |-> Units(30),
            initial_replica_token_throughput |-> <<20, 1>>,
            throughput_alpha |-> <<3, 10>>,
            scale_up_threshold |-> <<11, 10>>,
            scale_down_threshold |-> <<7, 10>>,
            min_replicas |-> 1,
            max_scale_per_decision |-> 2]

(***************************************************************************)
(* NetworkEnvelope (both implementations)                                  *)
(***************************************************************************)
\* mutant: only the prompt tokens are recorded
EnvelopeOnRequestArrival_PromptOnly(log, request) ==
    Append(log, <<request.arrived_at, request.num_prefill_tokens>>)

\* NetworkEnvelope.on_request_arrival
EnvelopeOnRequestArrival(log, request) ==
    Append(log, <<request.arrived_at,
                  request.num_prefill_tokens + request.num_decode_tokens>>)

RECURSIVE PopOld_Inclusive(_, _)
\* mutant: an arrival exactly look_back_time old is dropped too
PopOld_Inclusive(log, cutoff_time) ==
    IF log # <<>> /\ Head(log)[1] <= cutoff_time
    THEN PopOld_Inclusive(Tail(log), cutoff_time)
    ELSE log

\* mutant: only one old arrival is dropped per query
PopOld_Once(log, cutoff_time) ==
    IF log # <<>> /\ Head(log)[1] < cutoff_time THEN Tail(log) ELSE log

RECURSIVE PopOld(_, _)
\* while self._arrivals and self._arrivals[0][0] < cutoff_time: popleft()
PopOld(log, cutoff_time) ==
    IF log # <<>> /\ Head(log)[1] < cutoff_time
    THEN PopOld(Tail(log), cutoff_time)
    ELSE log

RECURSIVE TokensInWindow_Count(_, _, _, _)
\* mutant: the requests of the window are counted, not their tokens
TokensInWindow_Count(log, window_start, window_end, scale) ==
    IF log = <<>> THEN 0
    ELSE (IF window_start <= scale * Head(log)[1] /\ scale * Head(log)[1] < window_end
          THEN 1 ELSE 0)
         + TokensInWindow_Count(Tail(log), window_start, window_end, scale)

RECURSIVE TokensInWindow_Closed(_, _, _, _)
\* mutant: an arrival at the very end of the window is counted in
TokensInWindow_Closed(log, window_start, window_end, scale) ==
    IF log = <<>> THEN 0
    ELSE (IF window_start <= scale * Head(log)[1] /\ scale * Head(log)[1] <= window_end
          THEN Head(log)[2] ELSE 0)
         + TokensInWindow_Closed(Tail(log), window_start, window_end, scale)

RECURSIVE TokensInWindow(_, _, _, _)
\* sum of tokens over arrivals with window_start <= arrival_time < window_end,
\* the two window bounds being given as multiples of 1/scale
TokensInWindow(log, window_start, window_end, scale) ==
    IF log = <<>> THEN 0
    ELSE (IF window_start <= scale * Head(log)[1] /\ scale * Head(log)[1] < window_end
          THEN Head(log)[2] ELSE 0)
         + TokensInWindow(Tail(log), window_start, window_end, scale)

\* tokens / duration, duration in model time, as tokens per time unit
Rate(tokens, duration) == <<tokens * Units(1), duration>>

RECURSIVE CustomWindowLoop_FullWindow(_, _, _, _, _)
\* mutant: the tokens of a window cut short at the query time are divided
\* by window_size
CustomWindowLoop_FullWindow(arrivals_list, window_start, time, window_size, max_rate) ==
    IF ~(window_start < 10 * time) THEN max_rate
    ELSE LET window_end == Min(window_start + 10 * window_size, 10 * time)
             tokens_in_window == TokensInWindow(arrivals_list, window_start, window_end, 10)
             rate == Rate(tokens_in_window, window_size)
             step_size == window_size
         IN IF RateLess(max_rate, rate)
            THEN CustomWindowLoop_FullWindow(arrivals_list, window_start + step_size,
                                             time, window_size, rate)
            ELSE CustomWindowLoop_FullWindow(arrivals_list, window_start + step_size,
                                             time, window_size, max_rate)

RECURSIVE CustomWindowLoop(_, _, _, _, _)
\* custom NetworkEnvelope: while window_start < time, in steps of
\* window_size / 10; window_start and window_end are kept in tenths
CustomWindowLoop(arrivals_list, window_start, time, window_size, max_rate) ==
    IF ~(window_start < 10 * time) THEN max_rate
    ELSE LET window_end == Min(window_start + 10 * window_size, 10 * time)
             tokens_in_window == TokensInWindow(arrivals_list, window_start, window_end, 10)
             actual_window_size == window_end - window_start
             rate == Rate(10 * tokens_in_window, actual_window_size)
             step_size == window_size
         IN IF actual_window_size > 0 /\ RateLess(max_rate, rate)
            THEN CustomWindowLoop(arrivals_list, window_start + step_size, time,
                                  window_size, rate)
            ELSE CustomWindowLoop(arrivals_list, window_start + step_size, time,
                                  window_size, max_rate)

\* mutant: a query without a window measures the whole look-back time
CustomGetMaxRequestRate_WholeLookBack(log, time, window_size, look_back_time) ==
    IF window_size <= 0
    THEN [rate |-> Rate(TokensInWindow(log, time - look_back_time, time, 1),
                        look_back_time),
          arrivals |-> log]
    ELSE LET cutoff_time == time - look_back_time
             kept == PopOld(log, cutoff_time)
         IN IF kept = <<>> THEN [rate |-> Zero, arrivals |-> kept]
            ELSE IF kept[Len(kept)][1] < cutoff_time
                 THEN [rate |-> Zero, arrivals |-> kept]
                 ELSE [rate |-> CustomWindowLoop(kept, 10 * cutoff_time, time,
                                                window_size, Zero),
                       arrivals |-> kept]

\* custom NetworkEnvelope.get_max_request_rate: the rate and the log it leaves
CustomGetMaxRequestRate(log, time, window_size, look_back_time) ==
    IF window_size <= 0 THEN [rate |-> Zero, arrivals |-> log]
    ELSE LET cutoff_time == time - look_back_time
             kept == PopOld(log, cutoff_time)
         IN IF kept = <<>> THEN [rate |-> Zero, arrivals |-> kept]
            ELSE IF kept[Len(kept)][1] < cutoff_time
                 THEN [rate |-> Zero, arrivals |-> kept]
                 ELSE [rate |-> CustomWindowLoop(kept, 10 * cutoff_time, time,
                                                window_size, Zero),
                       arrivals |-> kept]

RECURSIVE InferlineSampleLoop(_, _, _, _, _, _, _)
\* inferline NetworkEnvelope: for i in range(num_samples), with
\* step = (time - window_size - cutoff_time) / (num_samples - 1); the window
\* bounds are kept as multiples of 1 / (num_samples - 1)
InferlineSampleLoop(log, i, num_samples, cutoff_time, time, window_size, max_rate) ==
    IF i >= num_samples THEN max_rate
    ELSE LET scale == num_samples - 1
             start0 == scale * cutoff_time + i * (time - window_size - cutoff_time)
             clamp == start0 + scale * window_size > scale * time
             window_end == IF clamp THEN scale * time ELSE start0 + scale * window_size
             window_start == IF clamp THEN scale * (time - window_size) ELSE start0
             tokens_in_window == TokensInWindow(log, window_start, window_end, scale)
         IN InferlineSampleLoop(log, i + 1, num_samples, cutoff_time, time,
                window_size, RateMax(max_rate, Rate(tokens_in_window, window_size)))

\* inferline NetworkEnvelope.get_max_request_rate: the rate and the log it leaves
InferlineGetMaxRequestRate(log, time, window_size, look_back_time) ==
    IF window_size <= 0 THEN [rate |-> Zero, arrivals |-> log]
    ELSE LET cutoff_time == time - look_back_time
             kept == PopOld(log, cutoff_time)
             num_samples == Min(10, (look_back_time \div window_size) + 1)
         IN IF kept = <<>> THEN [rate |-> Zero, arrivals |-> kept]
            ELSE IF num_samples <= 1
                 THEN LET window_start == Max(cutoff_time, time - window_size)
                          window_end == time
                      IN [rate |-> IF window_end > window_start
                                   THEN Rate(TokensInWindow(kept, window_start, window_end, 1),
                                             window_end - window_start)
                                   ELSE Zero,
                          arrivals |-> kept]
                 ELSE [rate |-> InferlineSampleLoop(kept, 0, num_samples, cutoff_time,
                                                    time, window_size, Zero),
                       arrivals |-> kept]

\* _brute_force_max_rate of the envelope tests: the greatest rate over the
\* windows [s, min(s + window_size, time)) starting at the cutoff, at an
\* arrival or one window_size before an arrival
BruteForceMaxRate(log, time, window_size, look_back_time) ==
    IF window_size <= 0 THEN Zero
    ELSE LET cutoff == time - look_back_time
             Relevant(entry) == cutoff <= entry[1] /\ entry[1] <= time
             relevant == SelectSeq(log, Relevant)
             candidate_starts ==
                 {cutoff}
                   \cup {relevant[i][1] : i \in 1..Len(relevant)}
                   \cup {Max(cutoff, relevant[i][1] - window_size) :
                            i \in 1..Len(relevant)}
             WindowEnd(window_start) == Min(window_start + window_size, time)
             rates == {Rate(TokensInWindow(relevant, window_start,
                                           WindowEnd(window_start), 1),
                            WindowEnd(window_start) - window_start) :
                         window_start \in {c \in candidate_starts :
                                              WindowEnd(c) - c > 0}}
         IN IF relevant = <<>> \/ rates = {} THEN Zero
            ELSE CHOOSE best_rate \in rates :
                     \A rate \in rates : ~RateLess(best_rate, rate)

(***************************************************************************)
(* on_batch_end and tune                                                   *)
(***************************************************************************)
RECURSIVE Sum(_)
\* sum(batch.num_tokens)
Sum(seq) == IF seq = <<>> THEN 0 ELSE Head(seq) + Sum(Tail(seq))

\* mutant: the weights of the sample and of the history are exchanged
Ema_Swapped(alpha, batch_throughput, throughput) ==
    Norm(<<(alpha[2] - alpha[1]) * batch_throughput[1] * throughput[2]
             + alpha[1] * throughput[1] * batch_throughput[2],
           alpha[2] * batch_throughput[2] * throughput[2]>>)

\* alpha * batch_throughput + (1 - alpha) * throughput
Ema(alpha, batch_throughput, throughput) ==
    Norm(<<alpha[1] * batch_throughput[1] * throughput[2]
             + (alpha[2] - alpha[1]) * throughput[1] * batch_throughput[2],
           alpha[2] * batch_throughput[2] * throughput[2]>>)

\* mutant: a batch without tokens is averaged in as a throughput of zero
OnBatchEndThroughput_NoTokenGuard(batch, alpha, throughput) ==
    IF batch.scheduled_at = None \/ batch.completed_at = None THEN throughput
    ELSE LET execution_time == batch.completed_at - batch.scheduled_at
             total_tokens == Sum(batch.num_tokens)
         IN IF execution_time <= 0 THEN throughput
            ELSE Ema(alpha, Rate(total_tokens, execution_time), throughput)

\* on_batch_end (the same code in both autoscalers): the new throughput estimate
OnBatchEndThroughput(batch, alpha, throughput) ==
    IF batch.scheduled_at = None \/ batch.completed_at = None THEN throughput
    ELSE LET execution_time == batch.completed_at - batch.scheduled_at
             total_tokens == Sum(batch.num_tokens)
         IN IF execution_time <= 0 THEN throughput
            ELSE IF total_tokens <= 0 THEN throughput
                 ELSE Ema(alpha, Rate(total_tokens, execution_time), throughput)

\* mutant: the stabilization delay is never waited for
Elapsed_Always(time, last, delay) == TRUE

\* time - self._last_scale_up_time >= delay, with -inf for "never"
Elapsed(time, last, delay) == last = NegInf \/ time - last >= delay

\* InferlineAutoscaler.tune: can_scale_down
InferlineCanScaleDown(time, last_up, cfg) ==
    Elapsed(time, last_up, cfg.stabilization_delay)

\* mutant: the scale-down target is not raised to one replica
InferlineDecision_NoFloor(up_rate, down_rate, current_replicas, throughput, can_scale_down) ==
    IF throughput[1] > 0 /\ CeilRatio(up_rate, throughput) > current_replicas
    THEN CeilRatio(up_rate, throughput) - current_replicas
    ELSE IF /\ can_scale_down
            /\ throughput[1] > 0
            /\ CeilRatio(down_rate, throughput) < current_replicas
         THEN CeilRatio(down_rate, throughput) - current_replicas
         ELSE 0

\* InferlineAutoscaler.tune after its two envelope queries: the delta returned
InferlineDecision(up_rate, down_rate, current_replicas, throughput, can_scale_down) ==
    IF throughput[1] > 0 /\ CeilRatio(up_rate, throughput) > current_replicas
    THEN CeilRatio(up_rate, throughput) - current_replicas
    ELSE IF /\ can_scale_down
            /\ throughput[1] > 0
            /\ Max(1, CeilRatio(down_rate, throughput)) < current_replicas
         THEN Max(1, CeilRatio(down_rate, throughput)) - current_replicas
         ELSE 0

\* InferlineAutoscaler.tune: the delta, the fields it leaves, the pruned log
\* and the two rates it measured
InferlineTune(log, time, cfg, throughput, current_replicas, last_up, last_down) ==
    LET up == InferlineGetMaxRequestRate(log, time, cfg.min_window_size_scale_up,
                                         cfg.look_back_time_scale_up)
        down == InferlineGetMaxRequestRate(up.arrivals, time,
                                           cfg.min_window_size_scale_down,
                                           cfg.look_back_time_scale_down)
        d == InferlineDecision(up.rate, down.rate, current_replicas, throughput,
                               InferlineCanScaleDown(time, last_up, cfg))
    IN [delta |-> d,
        last_scale_up_time |-> IF d > 0 THEN time ELSE last_up,
        last_scale_down_time |-> last_down,
        arrivals |-> down.arrivals,
        required_capacity_up |-> up.rate,
        required_capacity_down |-> down.rate]

\* required_capacity > current_replicas * throughput * threshold
AboveCapacity(required, current_replicas, throughput, threshold) ==
    required[1] * throughput[2] * threshold[2]
      > current_replicas * throughput[1] * threshold[1] * required[2]

\* required_capacity < current_replicas * throughput * threshold
BelowCapacity(required, current_replicas, throughput, threshold) ==
    required[1] * throughput[2] * threshold[2]
      < current_replicas * throughput[1] * threshold[1] * required[2]

\* mutant: no cooldown between two scale-downs
CustomCanScaleDown_NoCooldown(time, last_up, last_down, cfg) ==
    Elapsed(time, last_up, cfg.stabilization_delay)

\* CustomAutoscaler.tune: can_scale_down
CustomCanScaleDown(time, last_up, last_down, cfg) ==
    /\ Elapsed(time, last_up, cfg.stabilization_delay)
    /\ last_down = NegInf \/ 2 * (time - last_down) >= cfg.stabilization_delay

\* mutant: the scale-up is not capped at max_scale_per_decision
CustomScaleUpNeeded_Uncapped(up_rate, current_replicas, throughput, cfg) ==
    IF AboveCapacity(up_rate, current_replicas, throughput, cfg.scale_up_threshold)
    THEN Max(0, CeilRatio(up_rate, throughput) - current_replicas)
    ELSE 0

\* mutant: the scale-up is not gated by scale_up_threshold
CustomScaleUpNeeded_Ungated(up_rate, current_replicas, throughput, cfg) ==
    Max(0, Min(CeilRatio(up_rate, throughput) - current_replicas,
               cfg.max_scale_per_decision))

\* CustomAutoscaler.tune: scale_up_needed, 0 when the scale-up branch is not taken
CustomScaleUpNeeded(up_rate, current_replicas, throughput, cfg) ==
    IF AboveCapacity(up_rate, current_replicas, throughput, cfg.scale_up_threshold)
    THEN Max(0, Min(CeilRatio(up_rate, throughput) - current_replicas,
                    cfg.max_scale_per_decision))
    ELSE 0

\* mutant: the scale-down is not gated by scale_down_threshold
CustomScaleDownNeeded_Ungated(down_rate, current_replicas, throughput, cfg, can_scale_down) ==
    IF can_scale_down
    THEN Max(0, Min(current_replicas
                      - Max(CeilRatio(down_rate, throughput), cfg.min_replicas),
                    cfg.max_scale_per_decision))
    ELSE 0

\* CustomAutoscaler.tune: scale_down_needed, 0 when the branch is not taken
CustomScaleDownNeeded(down_rate, current_replicas, throughput, cfg, can_scale_down) ==
    IF /\ can_scale_down
       /\ BelowCapacity(down_rate, current_replicas, throughput, cfg.scale_down_threshold)
    THEN Max(0, Min(current_replicas
                      - Max(CeilRatio(down_rate, throughput), cfg.min_replicas),
                    cfg.max_scale_per_decision))
    ELSE 0

\* mutant: the scale-down check is evaluated before the scale-up check
CustomDecision_DownFirst(up_rate, down_rate, current_replicas, throughput, cfg, can_scale_down) ==
    IF throughput[1] <= 0 THEN 0
    ELSE IF CustomScaleDownNeeded(down_rate, current_replicas, throughput, cfg,
                                  can_scale_down) > 0
         THEN -CustomScaleDownNeeded(down_rate, current_replicas, throughput, cfg,
                                     can_scale_down)
         ELSE CustomScaleUpNeeded(up_rate, current_replicas, throughput, cfg)

\* mutant: without a throughput estimate one more replica is asked for
CustomDecision_NoEstimate(up_rate, down_rate, current_replicas, throughput, cfg, can_scale_down) ==
    IF throughput[1] <= 0 THEN 1
    ELSE IF CustomScaleUpNeeded(up_rate, current_replicas, throughput, cfg) > 0
         THEN CustomScaleUpNeeded(up_rate, current_replicas, throughput, cfg)
         ELSE -CustomScaleDownNeeded(down_rate, current_replicas, throughput, cfg,
                                     can_scale_down)

\* CustomAutoscaler.tune after its two envelope queries: the delta returned
CustomDecision(up_rate, down_rate, current_replicas, throughput, cfg, can_scale_down) ==
    IF throughput[1] <= 0 THEN 0
    ELSE IF CustomScaleUpNeeded(up_rate, current_replicas, throughput, cfg) > 0
         THEN CustomScaleUpNeeded(up_rate, current_replicas, throughput, cfg)
         ELSE -CustomScaleDownNeeded(down_rate, current_replicas, throughput, cfg,
                                     can_scale_down)

\* mutant: the scale-down query reads a log of its own, which the scale-up
\* query has not pruned
CustomTune_SeparateLogs(log, time, cfg, throughput, current_replicas, last_up, last_down) ==
    LET up == CustomGetMaxRequestRate(log, time, cfg.min_window_size_scale_up,
                                      cfg.look_back_time_scale_up)
        down == CustomGetMaxRequestRate(log, time,
                                        cfg.min_window_size_scale_down,
                                        cfg.look_back_time_scale_down)
        d == CustomDecision(up.rate, down.rate, current_replicas, throughput, cfg,
                            CustomCanScaleDown(time, last_up, last_down, cfg))
    IN [delta |-> d,
        last_scale_up_time |-> IF d > 0 THEN time ELSE last_up,
        last_scale_down_time |-> IF d < 0 THEN time ELSE last_down,
        arrivals |-> down.arrivals,
        required_capacity_up |-> up.rate,
        required_capacity_down |-> down.rate]

\* CustomAutoscaler.tune: the delta, the fields it leaves, the pruned log
\* and the two rates it measured
CustomTune(log, time, cfg, throughput, current_replicas, last_up, last_down) ==
    LET up == CustomGetMaxRequestRate(log, time, cfg.min_window_size_scale_up,
                                      cfg.look_back_time_scale_up)
        down == CustomGetMaxRequestRate(up.arrivals, time,
                                        cfg.min_window_size_scale_down,
                                        cfg.look_back_time_scale_down)
        d == CustomDecision(up.rate, down.rate, current_replicas, throughput, cfg,
                            CustomCanScaleDown(time, last_up, last_down, cfg))
    IN [delta |-> d,
        last_scale_up_time |-> IF d > 0 THEN time ELSE last_up,
        last_scale_down_time |-> IF d < 0 THEN time ELSE last_down,
        arrivals |-> down.arrivals,
        required_capacity_up |-> up.rate,
        required_capacity_down |-> down.rate]

(***************************************************************************)
(* State machine of the global scheduler.                                  *)
(***************************************************************************)
\* The replica map is populated in any insertion order.  The Round-Robin
\* scheduler is built on a fresh cluster (idle replicas); the LOR scheduler
\* sees any combination of the replica loads.
SchedInit ==
    /\ policy \in {"RR", "LOR"}
    /\ replica_schedulers \in Perms(ReplicaIds)
    /\ \E loads \in [ReplicaIds -> ReplicaLoads] :
          /\ policy = "RR" => \A r \in ReplicaIds : loads[r] = <<0, 0>>
          /\ replica_request_queue = [r \in ReplicaIds |-> loads[r][1]]
          /\ replica_allocation_map = [r \in ReplicaIds |-> loads[r][2]]
    /\ call = "init"
    /\ request_queue = <<>>
    /\ replicas_to_free = {}
    /\ request_counter = 0
    /\ next_request_id = 1
    /\ request_mapping = <<>>
    /\ replica_to_free = None
    /\ returned = [id \in 1..MaxRequests |-> 0]
    /\ assigned = [r \in ReplicaIds |-> 0]

\* the assignment counts after one more returned mapping
Returned(mapping) ==
    [id \in 1..MaxRequests |->
        returned[id] + Cardinality({i \in 1..Len(mapping) : mapping[i][2].id = id})]

\* BaseGlobalScheduler.add_request: append to the queue
AddRequest ==
    /\ next_request_id <= MaxRequests
    /\ \E t \in 0..MaxArrival :
          request_queue' = Append(request_queue,
                                  [id |-> next_request_id, arrived_at |-> t])
    /\ next_request_id' = next_request_id + 1
    /\ call' = "add_request"
    /\ request_mapping' = <<>>
    /\ UNCHANGED <<policy, replica_schedulers, replica_request_queue,
                   replica_allocation_map, replicas_to_free, request_counter,
                   replica_to_free, returned>>
    /\ UNCHANGED autoVars

\* MarkReplicaDraining(id): idempotent add to the draining set
MarkReplicaDraining ==
    /\ \E replica_id \in ReplicaIds :
          replicas_to_free' = replicas_to_free \cup {replica_id}
    /\ call' = "mark_replica_draining"
    /\ request_mapping' = <<>>
    /\ UNCHANGED <<policy, replica_schedulers, replica_request_queue,
                   replica_allocation_map, request_queue, request_counter,
                   next_request_id, replica_to_free, returned>>
    /\ UNCHANGED autoVars

\* mutant: the replica marked takes the place of those marked before
MarkReplicaToFree_Replace ==
    /\ policy = "LOR"
    /\ LET selected == MarkScan(replica_schedulers, None, 0)
       IN /\ replica_to_free' = selected
          /\ replicas_to_free' = IF selected # None
                                 THEN {selected}
                                 ELSE replicas_to_free
    /\ call' = "mark_replica_to_free"
    /\ request_mapping' = <<>>
    /\ UNCHANGED <<policy, replica_schedulers, replica_request_queue,
                   replica_allocation_map, request_queue, request_counter,
                   next_request_id, returned>>
    /\ UNCHANGED autoVars

\* LORGlobalScheduler.mark_replica_to_free
MarkReplicaToFree ==
    /\ policy = "LOR"
    /\ LET selected == MarkScan(replica_schedulers, None, 0)
       IN /\ replica_to_free' = selected
          /\ replicas_to_free' = IF selected # None
                                 THEN replicas_to_free \cup {selected}
                                 ELSE replicas_to_free
    /\ call' = "mark_replica_to_free"
    /\ request_mapping' = <<>>
    /\ UNCHANGED <<policy, replica_schedulers, replica_request_queue,
                   replica_allocation_map, request_queue, request_counter,
                   next_request_id, returned>>
    /\ UNCHANGED autoVars

\* RoundRobinGlobalScheduler.schedule
ScheduleRR ==
    /\ policy = "RR"
    /\ \E r \in {RRSchedule(request_queue, request_counter)} :
          /\ request_queue' = r.queue
          /\ request_counter' = r.counter
          /\ request_mapping' = r.mapping
          /\ returned' = Returned(r.mapping)
    /\ call' = "schedule"
    /\ UNCHANGED <<policy, replica_schedulers, replica_request_queue,
                   replica_allocation_map, replicas_to_free, next_request_id,
                   replica_to_free>>
    /\ UNCHANGED autoVars

\* LORGlobalScheduler.schedule
ScheduleLOR ==
    /\ policy = "LOR"
    /\ \E r \in {LORSchedule(request_queue)} :
          /\ request_queue' = r.queue
          /\ request_mapping' = r.mapping
          /\ returned' = Returned(r.mapping)
    /\ call' = "schedule"
    /\ UNCHANGED <<policy, replica_schedulers, replica_request_queue,
                   replica_allocation_map, replicas_to_free, request_counter,
                   next_request_id, replica_to_free>>
    /\ UNCHANGED autoVars

(***************************************************************************)
(* State machine of the autoscalers.                                       *)
(***************************************************************************)
MaxTicks == 3           \* the clock advances at most MaxTicks times
MaxArrivals == 1        \* on_request_arrival calls along one behaviour
MaxBatches == 1         \* on_batch_end calls along one behaviour
MaxTime == 4            \* the envelope alone is driven up to this time
MaxLogLen == 2          \* arrivals recorded in the envelope driven alone

\* <<num_prefill_tokens, num_decode_tokens>> of an arriving request: a short
\* prompt and a long one
RequestShapes == {<<100, 1>>, <<1000, 100>>}

\* <<num_replicas, num_pending_scale_ups, num_pending_scale_downs>> the driver
\* may leave: a fleet at rest, one growing and one shrinking
Fleets == {<<2, 0, 0>>, <<2, 1, 0>>, <<2, 0, 1>>}

\* no batch at hand
NoBatch == [scheduled_at |-> None, completed_at |-> None, num_tokens |-> <<>>]

\* batches handed to on_batch_end: the batch of the throughput test and the
\* malformed ones (a missing timestamp, no duration, no tokens)
Batches ==
    {[scheduled_at |-> Units(10), completed_at |-> Units(20), num_tokens |-> <<100, 50, 75>>],
     [scheduled_at |-> None, completed_at |-> Units(20), num_tokens |-> <<100>>],
     [scheduled_at |-> Units(10), completed_at |-> None, num_tokens |-> <<100>>],
     [scheduled_at |-> Units(20), completed_at |-> Units(20), num_tokens |-> <<100>>],
     [scheduled_at |-> Units(10), completed_at |-> Units(20), num_tokens |-> <<>>]}

\* the configuration in force
Config == IF autoscaler = "custom" THEN CustomConfig(service_level) ELSE InferlineConfig

\* the clock is observed every half stabilization delay
TickLen == Config.stabilization_delay \div 2

\* mutant: the pending scale-ups are left out of the count
CurrentReplicas_NoPendingUps == num_replicas - num_pending_scale_downs

\* current_replicas in tune()
CurrentReplicas == num_replicas + num_pending_scale_ups - num_pending_scale_downs

AutoInit ==
    /\ autoscaler \in {"inferline", "custom"}
    /\ service_level \in IF autoscaler = "custom" THEN {1, 2, 3} ELSE {0}
    /\ clock = 0
    /\ arrivals = <<>>
    /\ replica_token_throughput = Config.initial_replica_token_throughput
    /\ last_scale_up_time = NegInf
    /\ last_scale_down_time = NegInf
    /\ num_replicas = 2
    /\ num_pending_scale_ups = 0
    /\ num_pending_scale_downs = 0
    /\ num_arrivals = 0
    /\ num_batches = 0
    /\ delta = 0
    /\ t_up = NegInf
    /\ in_window = FALSE
    /\ cooling = FALSE
    /\ down_justified = FALSE
    /\ last_batch = NoBatch
    /\ max_request_rate = Zero
    /\ query_window_size = 0
    /\ query_look_back_time = 0
    /\ query_time = None
    /\ query_num_arrivals = 0
    /\ query_gap = None
    /\ window_starts = <<>>

\* a call other than tune() returns no delta
NoDelta ==
    /\ delta' = 0
    /\ in_window' = FALSE
    /\ cooling' = FALSE
    /\ down_justified' = FALSE

\* the simulation clock advances
Tick ==
    /\ clock < MaxTicks * TickLen
    /\ clock' = clock + TickLen
    /\ UNCHANGED <<autoscaler, service_level, arrivals, replica_token_throughput,
                   last_scale_up_time, last_scale_down_time, num_replicas,
                   num_pending_scale_ups, num_pending_scale_downs, num_arrivals,
                   num_batches, t_up, envVars>>
    /\ NoDelta

\* on_request_arrival of either autoscaler, for a request arriving now
OnRequestArrival ==
    /\ num_arrivals < MaxArrivals
    /\ \E shape \in RequestShapes :
          arrivals' = EnvelopeOnRequestArrival(arrivals,
                          [arrived_at |-> clock,
                           num_prefill_tokens |-> shape[1],
                           num_decode_tokens |-> shape[2]])
    /\ num_arrivals' = num_arrivals + 1
    /\ UNCHANGED <<autoscaler, service_level, clock, replica_token_throughput,
                   last_scale_up_time, last_scale_down_time, num_replicas,
                   num_pending_scale_ups, num_pending_scale_downs,
                   num_batches, t_up, envVars>>
    /\ NoDelta

\* on_batch_end(b) of either autoscaler
OnBatchEnd(b) ==
    /\ num_batches < MaxBatches
    /\ replica_token_throughput' =
          OnBatchEndThroughput(b, Config.throughput_alpha, replica_token_throughput)
    /\ num_batches' = num_batches + 1
    /\ UNCHANGED <<autoscaler, service_level, clock, arrivals,
                   last_scale_up_time, last_scale_down_time, num_replicas,
                   num_pending_scale_ups, num_pending_scale_downs,
                   num_arrivals, t_up, envVars>>
    /\ NoDelta

\* the driver applies scaling actions: replicas come and go, actions pend
Driver ==
    /\ \E fleet \in Fleets :
          /\ num_replicas' = fleet[1]
          /\ num_pending_scale_ups' = fleet[2]
          /\ num_pending_scale_downs' = fleet[3]
    /\ UNCHANGED <<autoscaler, service_level, clock, arrivals, replica_token_throughput,
                   last_scale_up_time, last_scale_down_time, num_arrivals,
                   num_batches, t_up, envVars>>
    /\ NoDelta

\* what a tune() call leaves, r being the result of the class's tune and
\* free the delta it would return were can_scale_down true
TuneStep(r, free) ==
    /\ delta' = r.delta
    /\ last_scale_up_time' = r.last_scale_up_time
    /\ last_scale_down_time' = r.last_scale_down_time
    /\ arrivals' = r.arrivals
    /\ t_up' = IF r.delta > 0 THEN clock ELSE t_up
    /\ in_window' = (t_up # NegInf /\ clock - t_up < Config.stabilization_delay)
    /\ cooling' = /\ autoscaler = "custom"
                  /\ last_scale_down_time # NegInf
                  /\ 2 * (clock - last_scale_down_time) < Config.stabilization_delay
    /\ down_justified' = (free < 0)
    /\ UNCHANGED <<autoscaler, service_level, clock, replica_token_throughput,
                   num_replicas, num_pending_scale_ups, num_pending_scale_downs,
                   num_arrivals, num_batches, envVars>>

\* the delta a tune() that measured r's rates would return were
\* can_scale_down true
InferlineUngated(r) ==
    InferlineDecision(r.required_capacity_up, r.required_capacity_down,
                      CurrentReplicas, replica_token_throughput, TRUE)

CustomUngated(r) ==
    CustomDecision(r.required_capacity_up, r.required_capacity_down,
                   CurrentReplicas, replica_token_throughput,
                   CustomConfig(service_level), TRUE)

\* InferlineAutoscaler.tune(clock)
TuneInferline ==
    /\ autoscaler = "inferline"
    /\ \E r \in {InferlineTune(arrivals, clock, InferlineConfig,
                              replica_token_throughput, CurrentReplicas,
                              last_scale_up_time, last_scale_down_time)} :
          TuneStep(r, InferlineUngated(r))

\* CustomAutoscaler.tune(clock)
TuneCustom ==
    /\ autoscaler = "custom"
    /\ \E r \in {CustomTune(arrivals, clock, CustomConfig(service_level),
                           replica_token_throughput, CurrentReplicas,
                           last_scale_up_time, last_scale_down_time)} :
          TuneStep(r, CustomUngated(r))

\* the autoscaler at rest, while the scheduler runs
AutoIdle ==
    /\ autoscaler = "inferline"
    /\ service_level = 0
    /\ clock = 0
    /\ arrivals = <<>>
    /\ replica_token_throughput = InferlineConfig.initial_replica_token_throughput
    /\ last_scale_up_time = NegInf
    /\ last_scale_down_time = NegInf
    /\ num_replicas = NumReplicas
    /\ num_pending_scale_ups = 0
    /\ num_pending_scale_downs = 0
    /\ num_arrivals = 0
    /\ num_batches = 0
    /\ delta = 0
    /\ t_up = NegInf
    /\ in_window = FALSE
    /\ cooling = FALSE
    /\ down_justified = FALSE
    /\ last_batch = NoBatch
    /\ max_request_rate = Zero
    /\ query_window_size = 0
    /\ query_look_back_time = 0
    /\ query_time = None
    /\ query_num_arrivals = 0
    /\ query_gap = None
    /\ window_starts = <<>>

\* the scheduler at rest, while the autoscaler runs
SchedIdle ==
    /\ policy = "RR"
    /\ replica_schedulers = sorted(ReplicaIds)
    /\ replica_request_queue = [r \in ReplicaIds |-> 0]
    /\ replica_allocation_map = [r \in ReplicaIds |-> 0]
    /\ request_queue = <<>>
    /\ replicas_to_free = {}
    /\ request_counter = 0
    /\ next_request_id = 1
    /\ call = "init"
    /\ request_mapping = <<>>
    /\ replica_to_free = None
    /\ returned = [id \in 1..MaxRequests |-> 0]
    /\ assigned = [r \in ReplicaIds |-> 0]

Init == SchedInit /\ AutoIdle

\* the assignments are not tallied per replica
Untallied == UNCHANGED assigned

Next ==
    \/ AddRequest /\ Untallied
    \/ MarkReplicaDraining /\ Untallied
    \/ MarkReplicaToFree /\ Untallied
    \/ ScheduleRR /\ Untallied
    \/ ScheduleLOR /\ Untallied

Spec == Init /\ [][Next]_vars

\* one scheduler of each policy, built over the replica map {7: _, 3: _, 5: _}
\* with the loads of the LOR tests
InitLive ==
    /\ policy \in {"RR", "LOR"}
    /\ replica_schedulers = <<7, 3, 5>>
    /\ replica_request_queue =
          [r \in ReplicaIds |-> IF policy = "LOR" /\ r = 3 THEN 2 ELSE 0]
    /\ replica_allocation_map =
          [r \in ReplicaIds |-> IF policy = "LOR" /\ r # 5 THEN 1 ELSE 0]
    /\ call = "init"
    /\ request_queue = <<>>
    /\ replicas_to_free = {}
    /\ request_counter = 0
    /\ next_request_id = 1
    /\ request_mapping = <<>>
    /\ replica_to_free = None
    /\ returned = [id \in 1..MaxRequests |-> 0]
    /\ assigned = [r \in ReplicaIds |-> 0]
    /\ AutoIdle

\* schedule() of the policy the scheduler was built with
Schedule == (ScheduleRR \/ ScheduleLOR) /\ Untallied

\* the simulation driver keeps calling schedule()
SpecLive == InitLive /\ [][Next]_vars /\ WF_vars(Schedule)

InitAuto == AutoInit /\ SchedIdle

\* a call of the closed loop: the scheduler is at rest and no call is recorded
Unrecorded == UNCHANGED <<schedVars, last_batch>>

NextAuto ==
    \/ Tick /\ Unrecorded
    \/ OnRequestArrival /\ Unrecorded
    \/ (\E b \in Batches : OnBatchEnd(b)) /\ Unrecorded
    \/ Driver /\ Unrecorded
    \/ TuneInferline /\ Unrecorded
    \/ TuneCustom /\ Unrecorded

SpecAuto == InitAuto /\ [][NextAuto]_vars

(***************************************************************************)
(* A Round-Robin scheduler whose draining set is fixed when it is built:   *)
(* only add_request and schedule are called, and the pairs schedule        *)
(* returns are tallied per replica.                                        *)
(***************************************************************************)
InitRR ==
    /\ policy = "RR"
    /\ replica_schedulers \in Perms(ReplicaIds)
    /\ replica_request_queue = [r \in ReplicaIds |-> 0]
    /\ replica_allocation_map = [r \in ReplicaIds |-> 0]
    /\ call = "init"
    /\ request_queue = <<>>
    /\ replicas_to_free \in SUBSET ReplicaIds
    /\ request_counter = 0
    /\ next_request_id = 1
    /\ request_mapping = <<>>
    /\ replica_to_free = None
    /\ returned = [id \in 1..MaxRequests |-> 0]
    /\ assigned = [r \in ReplicaIds |-> 0]
    /\ AutoIdle

\* the pairs just returned are added to the tally of their replicas
Tallied ==
    assigned' = [r \in ReplicaIds |->
                    assigned[r] + Cardinality({i \in 1..Len(request_mapping') :
                                                  request_mapping'[i][1] = r})]

NextRR ==
    \/ AddRequest /\ Untallied
    \/ ScheduleRR /\ Tallied

SpecRR == InitRR /\ [][NextRR]_vars

(***************************************************************************)

(* One autoscaler object in any state its callers can have left it in,     *)
(* every call recorded; each returned delta is registered in the pending   *)
(* counters before tune is called again.                                   *)
(***************************************************************************)
\* total tokens of the one request recorded at time 0: a short prompt, and
\* two long ones either side of the custom scale-up threshold of level 1
TuneTokens == {101, 1401, 1600}

\* the arrival logs tune() is entered with
TuneLogs == {<<>>} \cup {<< <<0, tokens>> >> : tokens \in TuneTokens}

\* the times the autoscaler is called at: at once, ten seconds and a minute
\* after the arrival
TuneTimes == {0, Units(10), Units(60)}

\* initial_replica_token_throughput as configured, and the values for which
\* tune() has no capacity to divide by
TuneThroughputs == {Config.initial_replica_token_throughput, Zero, <<-1, 1>>}

\* <<num_replicas, num_pending_scale_ups, num_pending_scale_downs>> tune() is
\* entered with
TuneFleets == {<<1, 0, 0>>, <<2, 0, 0>>, <<1, 1, 0>>, <<3, 0, 1>>, <<4, 0, 0>>}

\* the least number of replicas: max(1, ...) in InferlineAutoscaler.tune,
\* self._min_replicas in CustomAutoscaler.tune
Floor == IF autoscaler = "custom" THEN Config.min_replicas ELSE 1

InitTune ==
    /\ autoscaler \in {"inferline", "custom"}
    /\ service_level \in IF autoscaler = "custom" THEN {1, 2, 3} ELSE {0}
    /\ clock = 0
    /\ arrivals \in TuneLogs
    /\ replica_token_throughput \in TuneThroughputs
    /\ last_scale_up_time = NegInf
    /\ last_scale_down_time = NegInf
    /\ \E fleet \in TuneFleets :
          /\ num_replicas = fleet[1]
          /\ num_pending_scale_ups = fleet[2]
          /\ num_pending_scale_downs = fleet[3]
    /\ num_arrivals = Len(arrivals)
    /\ num_batches = 0
    /\ delta = 0
    /\ t_up = NegInf
    /\ in_window = FALSE
    /\ cooling = FALSE
    /\ down_justified = FALSE
    /\ last_batch = NoBatch
    /\ max_request_rate = Zero
    /\ query_window_size = 0
    /\ query_look_back_time = 0
    /\ query_time = None
    /\ query_num_arrivals = 0
    /\ query_gap = None
    /\ window_starts = <<>>
    /\ SchedIdle

\* the simulation clock advances to a later time
Later ==
    /\ \E time \in TuneTimes : time > clock /\ clock' = time
    /\ UNCHANGED <<autoscaler, service_level, arrivals, replica_token_throughput,
                   last_scale_up_time, last_scale_down_time, num_replicas,
                   num_pending_scale_ups, num_pending_scale_downs, num_arrivals,
                   num_batches, t_up, envVars>>
    /\ NoDelta

\* mutant: the caller registers nothing
ApplyDelta_Forgotten ==
    /\ delta # 0
    /\ UNCHANGED <<num_pending_scale_ups, num_pending_scale_downs>>
    /\ UNCHANGED <<autoscaler, service_level, clock, arrivals, replica_token_throughput,
                   last_scale_up_time, last_scale_down_time, num_replicas,
                   num_arrivals, num_batches, t_up, envVars>>
    /\ NoDelta

\* the caller registers the delta tune() returned in the pending counters
ApplyDelta ==
    /\ delta # 0
    /\ num_pending_scale_ups' = num_pending_scale_ups + Max(delta, 0)
    /\ num_pending_scale_downs' = num_pending_scale_downs + Max(-delta, 0)
    /\ UNCHANGED <<autoscaler, service_level, clock, arrivals, replica_token_throughput,
                   last_scale_up_time, last_scale_down_time, num_replicas,
                   num_arrivals, num_batches, t_up, envVars>>
    /\ NoDelta

\* a recorded call: its name and the batch it was handed
Recorded(name, b) ==
    /\ call' = name
    /\ last_batch' = b
    /\ UNCHANGED schedRest

NextTune ==
    \/ Later /\ Recorded("later", NoBatch)
    \/ \E b \in Batches : OnBatchEnd(b) /\ Recorded("on_batch_end", b)
    \/ delta = 0 /\ TuneInferline /\ Recorded("tune", NoBatch)
    \/ delta = 0 /\ TuneCustom /\ Recorded("tune", NoBatch)
    \/ ApplyDelta /\ Recorded("apply", NoBatch)

SpecTune == InitTune /\ [][NextTune]_vars

(***************************************************************************)
(* One autoscaler called again and again at one instant: no request        *)
(* arrives, no batch ends, and each delta tune returns is registered in    *)
(* the pending counters, which start at zero.                              *)
(***************************************************************************)
\* <<num_replicas, num_pending_scale_ups, num_pending_scale_downs>> at the
\* first tune()
RepeatFleets == {<<1, 0, 0>>, <<2, 0, 0>>, <<3, 0, 0>>, <<4, 0, 0>>}

InitRepeat ==
    /\ autoscaler \in {"inferline", "custom"}
    /\ service_level \in IF autoscaler = "custom" THEN {1, 2, 3} ELSE {0}
    /\ clock \in TuneTimes
    /\ arrivals \in TuneLogs
    /\ replica_token_throughput \in TuneThroughputs
    /\ last_scale_up_time = NegInf
    /\ last_scale_down_time = NegInf
    /\ \E fleet \in RepeatFleets :
          /\ num_replicas = fleet[1]
          /\ num_pending_scale_ups = fleet[2]
          /\ num_pending_scale_downs = fleet[3]
    /\ num_arrivals = Len(arrivals)
    /\ num_batches = 0
    /\ delta = 0
    /\ t_up = NegInf
    /\ in_window = FALSE
    /\ cooling = FALSE
    /\ down_justified = FALSE
    /\ last_batch = NoBatch
    /\ max_request_rate = Zero
    /\ query_window_size = 0
    /\ query_look_back_time = 0
    /\ query_time = None
    /\ query_num_arrivals = 0
    /\ query_gap = None
    /\ window_starts = <<>>
    /\ SchedIdle

NextRepeat ==
    \/ delta = 0 /\ TuneInferline /\ Recorded("tune", NoBatch)
    \/ delta = 0 /\ TuneCustom /\ Recorded("tune", NoBatch)
    \/ ApplyDelta /\ Recorded("apply", NoBatch)

SpecRepeat == InitRepeat /\ [][NextRepeat]_vars

(***************************************************************************)

(* One autoscaler under the clock, on_request_arrival, on_batch_end and    *)
(* tune, every call recorded and its fleet left alone.                     *)
(***************************************************************************)
NextCalls ==
    \/ Tick /\ Recorded("tick", NoBatch)
    \/ OnRequestArrival /\ Recorded("on_request_arrival", NoBatch)
    \/ \E b \in Batches : OnBatchEnd(b) /\ Recorded("on_batch_end", b)
    \/ TuneInferline /\ Recorded("tune", NoBatch)
    \/ TuneCustom /\ Recorded("tune", NoBatch)

SpecCalls == InitAuto /\ [][NextCalls]_vars

(***************************************************************************)

(* One NetworkEnvelope (of either autoscaler) driven alone: arrivals are   *)
(* recorded as time passes and get_max_request_rate is called with any     *)
(* window size and look-back time.                                         *)
(***************************************************************************)
\* total tokens of a recorded request
EnvTokens == {1, 3}

\* window_size arguments: invalid ones and valid ones
WindowSizes == {-1, 0, 1, 2}

\* look_back_time arguments
LookBacks == {1, 4}

InitEnv ==
    /\ AutoInit
    /\ service_level \in {0, 1}
    /\ SchedIdle

\* what a call other than get_max_request_rate leaves of the last query
NoRate ==
    /\ max_request_rate' = Zero
    /\ query_window_size' = 0
    /\ query_gap' = None
    /\ window_starts' = <<>>
    /\ UNCHANGED <<query_look_back_time, query_time, query_num_arrivals>>

\* the autoscaler around the envelope is not called
EnvelopeOnly ==
    UNCHANGED <<autoscaler, service_level, replica_token_throughput,
                last_scale_up_time, last_scale_down_time, num_replicas,
                num_pending_scale_ups, num_pending_scale_downs, num_batches,
                delta, t_up, in_window, cooling, down_justified>>

\* time passes
Advance ==
    /\ clock < MaxTime
    /\ clock' = clock + 1
    /\ UNCHANGED <<arrivals, num_arrivals>>
    /\ NoRate
    /\ EnvelopeOnly

\* NetworkEnvelope.on_request_arrival for a request arriving now
Arrive ==
    /\ num_arrivals < MaxLogLen
    /\ \E tokens \in EnvTokens :
          arrivals' = EnvelopeOnRequestArrival(arrivals,
                          [arrived_at |-> clock,
                           num_prefill_tokens |-> tokens \div 2,
                           num_decode_tokens |-> tokens - tokens \div 2])
    /\ num_arrivals' = num_arrivals + 1
    /\ UNCHANGED clock
    /\ NoRate
    /\ EnvelopeOnly

RECURSIVE CustomWindowStarts_Inclusive(_, _, _)
\* mutant: "while window_start <= time", one window more
CustomWindowStarts_Inclusive(window_start, time, window_size) ==
    IF ~(window_start <= 10 * time) THEN <<>>
    ELSE <<window_start>>
           \o CustomWindowStarts_Inclusive(window_start + window_size, time, window_size)

RECURSIVE CustomWindowStarts(_, _, _)
\* custom NetworkEnvelope: the values window_start takes in
\* "while window_start < time: ...; window_start += window_size / 10.0",
\* in tenths
CustomWindowStarts(window_start, time, window_size) ==
    IF ~(window_start < 10 * time) THEN <<>>
    ELSE <<window_start>>
           \o CustomWindowStarts(window_start + window_size, time, window_size)

\* custom NetworkEnvelope.get_max_request_rate: the windows it sums, none
\* when it returns before its loop
CustomEvaluatedWindows(log, time, window_size, look_back_time) ==
    IF window_size <= 0 THEN <<>>
    ELSE LET cutoff_time == time - look_back_time
             kept == PopOld(log, cutoff_time)
             starts == CustomWindowStarts(10 * cutoff_time, time, window_size)
         IN IF kept = <<>> THEN <<>>
            ELSE IF kept[Len(kept)][1] < cutoff_time THEN <<>>
                 ELSE [i \in 1..Len(starts) |-> <<starts[i], 10>>]

\* inferline NetworkEnvelope.get_max_request_rate: the windows it sums, the
\* single window or the num_samples windows of "for i in range(num_samples)"
InferlineEvaluatedWindows(log, time, window_size, look_back_time) ==
    IF window_size <= 0 THEN <<>>
    ELSE LET cutoff_time == time - look_back_time
             kept == PopOld(log, cutoff_time)
             num_samples == Min(10, (look_back_time \div window_size) + 1)
             scale == num_samples - 1
             Start0(i) == scale * cutoff_time + i * (time - window_size - cutoff_time)
         IN IF kept = <<>> THEN <<>>
            ELSE IF num_samples <= 1
                 THEN << <<Max(cutoff_time, time - window_size), 1>> >>
                 ELSE [i \in 1..num_samples |->
                         <<IF Start0(i - 1) + scale * window_size > scale * time
                           THEN scale * (time - window_size)
                           ELSE Start0(i - 1),
                           scale>>]

\* what get_max_request_rate(clock, window_size, look_back_time) leaves, r
\* being the result of the class's method
QueryStep(r, window_size, look_back_time) ==
    /\ max_request_rate' = r.rate
    /\ arrivals' = r.arrivals
    /\ query_window_size' = window_size
    /\ query_look_back_time' = look_back_time
    /\ query_time' = clock
    /\ query_num_arrivals' = num_arrivals
    /\ query_gap' = IF /\ query_time # None
                       /\ query_num_arrivals = num_arrivals
                       /\ query_look_back_time = look_back_time
                       /\ clock >= query_time + look_back_time
                    THEN clock - (query_time + look_back_time)
                    ELSE None
    /\ UNCHANGED <<clock, num_arrivals>>
    /\ EnvelopeOnly

\* inferline NetworkEnvelope.get_max_request_rate
QueryInferline ==
    /\ autoscaler = "inferline"
    /\ \E window_size \in WindowSizes, look_back_time \in LookBacks :
          /\ QueryStep(InferlineGetMaxRequestRate(arrivals, clock, window_size,
                                                  look_back_time),
                       window_size, look_back_time)
          /\ window_starts' = InferlineEvaluatedWindows(arrivals, clock, window_size,
                                                        look_back_time)

\* custom NetworkEnvelope.get_max_request_rate
QueryCustom ==
    /\ autoscaler = "custom"
    /\ \E window_size \in WindowSizes, look_back_time \in LookBacks :
          /\ QueryStep(CustomGetMaxRequestRate(arrivals, clock, window_size,
                                               look_back_time),
                       window_size, look_back_time)
          /\ window_starts' = CustomEvaluatedWindows(arrivals, clock, window_size,
                                                     look_back_time)

NextEnv ==
    \/ Advance /\ Recorded("advance", NoBatch)
    \/ Arrive /\ Recorded("on_request_arrival", NoBatch)
    \/ QueryInferline /\ Recorded("get_max_request_rate", NoBatch)
    \/ QueryCustom /\ Recorded("get_max_request_rate", NoBatch)

SpecEnv == InitEnv /\ [][NextEnv]_vars

TypeOK ==
    /\ policy \in {"RR", "LOR"}
    /\ replicas_to_free \subseteq ReplicaIds
    /\ request_counter \in 0..MaxRequests
    /\ Len(request_queue) <= MaxRequests
    /\ autoscaler \in {"inferline", "custom"}
    /\ clock \in 0..(MaxTicks * TickLen)
    /\ Len(arrivals) <= MaxArrivals
    /\ replica_token_throughput[2] > 0
    /\ delta \in Int
    /\ last_scale_up_time = t_up

(***************************************************************************)
(* Vocabulary of the scheduler claims.  In an action formula the unprimed  *)
(* variables are the state a call was entered in, the primed ones the      *)
(* state it left and the values it returned.                               *)
(***************************************************************************)
NonDraining == Range(replica_schedulers) \ replicas_to_free

Load(r) == replica_request_queue[r] + replica_allocation_map[r]

Replicas(mapping) == [i \in 1..Len(mapping) |-> mapping[i][1]]

Requests(mapping) == [i \in 1..Len(mapping) |-> mapping[i][2]]

Count(seq, x) == Cardinality({i \in 1..Len(seq) : seq[i] = x})

\* r1 comes before r2 in arrival order: earlier timestamp, or same and added first
Before(r1, r2) ==
    \/ r1.arrived_at < r2.arrived_at
    \/ r1.arrived_at = r2.arrived_at /\ r1.id < r2.id

InArrivalOrder(seq) ==
    \A i, j \in 1..Len(seq) : i < j => Before(seq[i], seq[j])

\* the next non-draining identity after r in ascending order, cyclically
CyclicNext(r) ==
    LET above == {x \in NonDraining : x > r}
    IN IF above # {}
       THEN CHOOSE x \in above : \A y \in above : x <= y
       ELSE CHOOSE x \in NonDraining : \A y \in NonDraining : x <= y

(***************************************************************************)
(* C1  Draining exclusion: no pair returned by Schedule(), under either    *)
(* policy, names a replica that is in the draining set at the time of the  *)
(* call.                                                                   *)
(***************************************************************************)
C1_DrainingExclusion ==
    [][call' = "schedule" =>
         \A i \in 1..Len(request_mapping') :
            request_mapping'[i][1] \notin replicas_to_free]_vars

C1_Witness ==
    /\ call = "schedule"
    /\ Len(request_mapping) >= 2
    /\ Cardinality(replicas_to_free) = 1

(***************************************************************************)
(* C2  No request is lost or duplicated: every added request is either in  *)
(* the pending queue or was returned in exactly one assignment (after      *)
(* every step that touches the queue or the assignments), and a            *)
(* Schedule() call made while a non-draining replica exists returns every  *)
(* queued request exactly once and leaves the queue empty.                 *)
(***************************************************************************)
QueuedOrReturnedOnce ==
    \A id \in 1..MaxRequests :
        LET at == {i \in 1..Len(request_queue) : request_queue[i].id = id}
        IN IF id < next_request_id
           THEN \/ returned[id] = 1 /\ at = {}
                \/ returned[id] = 0 /\ \E i \in at : at = {i}
           ELSE returned[id] = 0 /\ at = {}

C2_NoLossNoDuplication ==
    [][/\ <<request_queue, returned, next_request_id>>'
            # <<request_queue, returned, next_request_id>> => QueuedOrReturnedOnce'
       /\ (call' = "schedule" /\ NonDraining # {}) =>
             /\ request_queue' = <<>>
             /\ Len(request_mapping') = Len(request_queue)
             /\ \A i \in 1..Len(request_queue) :
                   \E j \in 1..Len(request_mapping') :
                      /\ request_mapping'[j][2] = request_queue[i]
                      /\ \A k \in 1..Len(request_mapping') :
                            request_mapping'[k][2] = request_queue[i] => k = j]_vars

C2_Witness ==
    /\ call = "schedule"
    /\ Len(request_mapping) >= 2
    /\ request_queue = <<>>
    /\ \E id \in 1..MaxRequests : id < next_request_id /\ returned[id] = 1

(***************************************************************************)
(* C3  When every known replica is draining, Schedule() returns an empty   *)
(* list and the pending queue keeps the number of requests it had.         *)
(***************************************************************************)
C3_AllDrainingKeepsQueueSize ==
    [][(call' = "schedule" /\ NonDraining = {}) =>
          /\ request_mapping' = <<>>
          /\ Len(request_queue') = Len(request_queue)]_vars

C3_Witness ==
    /\ call = "schedule"
    /\ NonDraining = {}
    /\ request_mapping = <<>>
    /\ Len(request_queue) >= 2

(***************************************************************************)
(* C4  When no non-draining replica exists, Schedule() leaves the          *)
(* scheduler state untouched.  As stated (same requests in the same order, *)
(* counter unchanged) this is C4_QueueUntouched; the code sorts the queue  *)
(* before it looks for replicas, so what holds is C4_QueueKeptUpToSort:    *)
(* the queue holds the same requests, in the same order whenever it was in *)
(* arrival order already and in arrival order otherwise, and the           *)
(* Round-Robin counter is unchanged.                                       *)
(***************************************************************************)
C4_QueueUntouched ==
    [][(call' = "schedule" /\ NonDraining = {}) =>
          /\ request_queue' = request_queue
          /\ request_counter' = request_counter]_vars

C4_QueueKeptUpToSort ==
    [][(call' = "schedule" /\ NonDraining = {}) =>
          /\ Len(request_queue') = Len(request_queue)
          /\ Range(request_queue') = Range(request_queue)
          /\ InArrivalOrder(request_queue')
          /\ InArrivalOrder(request_queue) => request_queue' = request_queue
          /\ request_counter' = request_counter]_vars

C4_Witness ==
    /\ call = "schedule"
    /\ NonDraining = {}
    /\ Len(request_queue) >= 2
    /\ \E i \in 1..Len(request_queue) : request_queue[i].id # i

(***************************************************************************)
(* C5  Round-robin fairness: one Round-Robin Schedule() call over K*N      *)
(* queued requests, N >= 1 non-draining replicas and K >= 1, gives every   *)
(* non-draining replica exactly K assignments, and consecutive assignments *)
(* visit the non-draining replicas in cyclic ascending order of identity.  *)
(***************************************************************************)
C5_RoundRobinFairness ==
    [][(/\ policy = "RR"
        /\ call' = "schedule"
        /\ NonDraining # {}
        /\ Len(request_queue) >= 1
        /\ Len(request_queue) % Cardinality(NonDraining) = 0) =>
          /\ \A r \in NonDraining :
                Count(Replicas(request_mapping'), r)
                  = Len(request_queue) \div Cardinality(NonDraining)
          /\ \A i \in 1..(Len(request_mapping') - 1) :
                request_mapping'[i + 1][1] = CyclicNext(request_mapping'[i][1])]_vars

C5_Witness ==
    /\ policy = "RR"
    /\ call = "schedule"
    /\ Cardinality(NonDraining) >= 2
    /\ Len(request_mapping) >= 2
    /\ Len(request_mapping) % Cardinality(NonDraining) = 0
    /\ replica_schedulers # sorted(ReplicaIds)

(***************************************************************************)
(* C6  LOR greedy snapshot: all requests of one LOR Schedule() call go to  *)
(* one and the same replica, a non-draining replica of minimum outstanding *)
(* load (pending queue length + in-flight allocation count) at call time.  *)
(***************************************************************************)
C6_LorGreedySnapshot ==
    [][(policy = "LOR" /\ call' = "schedule" /\ request_mapping' # <<>>) =>
          \E r \in NonDraining :
             /\ \A i \in 1..Len(request_mapping') : request_mapping'[i][1] = r
             /\ \A x \in NonDraining : Load(r) <= Load(x)]_vars

C6_Witness ==
    /\ policy = "LOR"
    /\ call = "schedule"
    /\ Len(request_mapping) = MaxRequests
    /\ Cardinality(NonDraining) >= 2
    /\ \E r, x \in NonDraining : Load(r) < Load(x) /\ Load(x) - Load(r) < MaxRequests

(***************************************************************************)
(* C7  MarkReplicaToFree(), called while some replica is not draining,     *)
(* returns a replica that was not draining, whose outstanding load is      *)
(* minimal among the non-draining replicas, and adds exactly that replica  *)
(* to the draining set.                                                    *)
(***************************************************************************)
C7_MarkReplicaToFreePicksMinimum ==
    [][(call' = "mark_replica_to_free" /\ NonDraining # {}) =>
          /\ replica_to_free' \in NonDraining
          /\ \A x \in NonDraining : Load(replica_to_free') <= Load(x)
          /\ replicas_to_free' = replicas_to_free \cup {replica_to_free'}]_vars

C7_Witness ==
    /\ call = "mark_replica_to_free"
    /\ replica_to_free # None
    /\ NonDraining # {}
    /\ \E x \in NonDraining :
          /\ Load(replica_to_free) < Load(x)
          /\ replica_request_queue[x] = replica_request_queue[replica_to_free]

(***************************************************************************)
(* C8  Repeated MarkReplicaToFree() calls with unchanged loads return      *)
(* distinct replicas in non-decreasing order of outstanding load, one per  *)
(* call until all N replicas are draining; every call made when all        *)
(* replicas are draining returns none and leaves the draining set as it    *)
(* was.  (replica_to_free is the value the previous call returned.)        *)
(***************************************************************************)
C8_RepeatedMarkReplicaToFree ==
    [][call' = "mark_replica_to_free" =>
          IF NonDraining # {}
          THEN /\ replica_to_free' \in ReplicaIds
               /\ replica_to_free' \notin replicas_to_free
               /\ replica_to_free # None =>
                     Load(replica_to_free) <= Load(replica_to_free')
          ELSE /\ replica_to_free' = None
               /\ replicas_to_free' = replicas_to_free]_vars

C8_Witness ==
    /\ call = "mark_replica_to_free"
    /\ replica_to_free = None
    /\ replicas_to_free = ReplicaIds
    /\ \E r, x \in ReplicaIds : Load(r) < Load(x)

(***************************************************************************)
(* C9  Schedule() (either policy) returns its assignments in               *)
(* non-decreasing order of arrival timestamp, requests with equal          *)
(* timestamps in the order they were added, however the AddRequest calls   *)
(* were ordered and interleaved with other calls.                          *)
(***************************************************************************)
C9_ArrivalOrder ==
    [][call' = "schedule" => InArrivalOrder(Requests(request_mapping'))]_vars

C9_Witness ==
    /\ call = "schedule"
    /\ Len(request_mapping) = MaxRequests
    /\ \E i, j \in 1..Len(request_mapping) :
          i < j /\ request_mapping[i][2].id > request_mapping[j][2].id
    /\ \E i, j \in 1..Len(request_mapping) :
          i < j /\ request_mapping[i][2].arrived_at = request_mapping[j][2].arrived_at


(***************************************************************************)
(* C10  Stabilization hysteresis, in both autoscalers.  Let t_up be the    *)
(* time of the last tune() that returned a positive delta.  A tune(now)    *)
(* with now - t_up < stabilization_delay never returns a negative delta;   *)
(* when the measured demand would justify a scale-down at such a call, it  *)
(* returns 0.  Once now - t_up >= stabilization_delay the scale-down is    *)
(* returned again (in the custom autoscaler, outside the cooldown of half  *)
(* a stabilization_delay that follows its own last scale-down).            *)
(***************************************************************************)
C10_StabilizationHysteresis ==
    /\ in_window => delta >= 0
    /\ in_window /\ down_justified => delta = 0
    /\ ~in_window /\ ~cooling /\ down_justified => delta < 0

C10_Witness ==
    /\ t_up # NegInf
    /\ in_window
    /\ down_justified
    /\ delta = 0


(***************************************************************************)
(* Vocabulary of the tune claims: what a tune() entered in the current     *)
(* state measures.                                                         *)
(***************************************************************************)
\* demand_up: the rate of the scale-up query
DemandUp ==
    IF autoscaler = "custom"
    THEN CustomGetMaxRequestRate(arrivals, clock, Config.min_window_size_scale_up,
                                 Config.look_back_time_scale_up).rate
    ELSE InferlineGetMaxRequestRate(arrivals, clock, Config.min_window_size_scale_up,
                                    Config.look_back_time_scale_up).rate

\* demand_down: the rate of the scale-down query
DemandDown ==
    IF autoscaler = "custom"
    THEN CustomGetMaxRequestRate(arrivals, clock, Config.min_window_size_scale_down,
                                 Config.look_back_time_scale_down).rate
    ELSE InferlineGetMaxRequestRate(arrivals, clock, Config.min_window_size_scale_down,
                                    Config.look_back_time_scale_down).rate

\* throughput_ema > 0 and ceil(demand_up / throughput_ema) > effective replicas
ScaleUpJustified ==
    /\ replica_token_throughput[1] > 0
    /\ CeilRatio(DemandUp, replica_token_throughput) > CurrentReplicas

\* demand_up > effective replicas * throughput_ema * scale_up_threshold, the
\* gate of the custom autoscaler
ThresholdCrossed ==
    autoscaler = "custom" =>
        AboveCapacity(DemandUp, CurrentReplicas, replica_token_throughput,
                      Config.scale_up_threshold)

\* the scale-down condition of the custom autoscaler, its gate open
ScaleDownJustified ==
    /\ autoscaler = "custom"
    /\ replica_token_throughput[1] > 0
    /\ BelowCapacity(DemandDown, CurrentReplicas, replica_token_throughput,
                     Config.scale_down_threshold)
    /\ Max(CeilRatio(DemandDown, replica_token_throughput), Config.min_replicas)
          < CurrentReplicas

C12_MinimumReplicaFloor ==
    /\ delta < 0 => CurrentReplicas + delta >= Floor
    /\ CurrentReplicas >= Floor

\* a scale-down to exactly the floor has been returned and registered
C12_Witness ==
    /\ call = "apply"
    /\ num_pending_scale_downs > 0
    /\ num_pending_scale_ups = 0
    /\ num_replicas - num_pending_scale_downs = Floor
    /\ last_scale_up_time = NegInf

(***************************************************************************)
(* Vocabulary of the envelope claims.  In an action formula the unprimed   *)
(* variables are the envelope a query was entered with, the primed ones    *)
(* the envelope it left and the rate it returned.                          *)
(***************************************************************************)
\* the entries of a log that are not older than cutoff
NotOlder(log, cutoff) ==
    LET Keep(entry) == entry[1] >= cutoff
    IN SelectSeq(log, Keep)

\* two fractions denote the same rate
SameRate(a, b) == a[1] * b[2] = b[1] * a[2]

(***************************************************************************)
(* C13 (envelope pruning).                                                 *)
(***************************************************************************)
\* C13: after a get_max_request_rate query at time T with look-back L and
\* window size > 0, on a log recorded in non-decreasing time order, no
\* retained entry is older than T - L and every entry at or after T - L is
\* still retained, in its place.
C13_PruningInvariant ==
    [][call' = "get_max_request_rate" /\ query_window_size' > 0
          => /\ \A i \in 1..Len(arrivals') :
                   arrivals'[i][1] >= clock - query_look_back_time'
             /\ arrivals' = NotOlder(arrivals, clock - query_look_back_time')]_vars

\* a query has dropped an old arrival and kept one that is exactly
\* look_back_time old
C13_Witness ==
    /\ call = "get_max_request_rate"
    /\ query_window_size > 0
    /\ query_num_arrivals = MaxLogLen
    /\ Len(arrivals) = 1
    /\ arrivals[1][1] = query_time - query_look_back_time

(***************************************************************************)
(* C14 (cold start, idempotent pruning).                                   *)
(***************************************************************************)
\* C14 as stated: an envelope with no recorded arrival returns 0 for every
\* query; a query at time T with look-back L followed, with no arrival in
\* between, by a query at a time T2 >= T + L with the same look-back
\* returns 0 and leaves the log empty.  It fails at T2 = T + L for an
\* arrival recorded at T, and for a second query with window_size <= 0.
C14_ColdStartIdempotentPruning ==
    call = "get_max_request_rate"
        => /\ query_num_arrivals = 0 => max_request_rate[1] = 0
           /\ query_gap # None => max_request_rate[1] = 0 /\ arrivals = <<>>

\* C14, amended: an envelope with no recorded arrival returns 0 for every
\* query and stays empty; a query at time T with look-back L followed, with
\* no arrival in between, by a query with window_size > 0 and the same
\* look-back at a time T2 > T + L returns 0 and leaves the log empty; at
\* T2 = T + L the query retains the arrivals recorded at exactly T and
\* nothing else, and returns 0 only if there is none.
C14_ColdStartPruningPastReach ==
    call = "get_max_request_rate"
        => /\ query_num_arrivals = 0
                => max_request_rate[1] = 0 /\ arrivals = <<>>
           /\ query_gap # None /\ query_gap > 0 /\ query_window_size > 0
                => max_request_rate[1] = 0 /\ arrivals = <<>>
           /\ query_gap = 0 /\ query_window_size > 0
                => /\ \A i \in 1..Len(arrivals) :
                         arrivals[i][1] = query_time - query_look_back_time
                   /\ max_request_rate[1] = 0 <=> arrivals = <<>>

\* a second query past the reach of the first has found the recorded
\* arrivals gone
C14_Witness ==
    /\ call = "get_max_request_rate"
    /\ query_gap # None /\ query_gap > 0
    /\ query_window_size > 0
    /\ query_num_arrivals = MaxLogLen
    /\ arrivals = <<>>
    /\ max_request_rate[1] = 0

(***************************************************************************)
(* C15 (single-arrival exactness).                                         *)
(***************************************************************************)
\* C15: on a log holding exactly one arrival, of weight W at time t,
\* get_max_request_rate(t + window_size, window_size, look_back_time) with
\* window_size > 0 and look_back_time >= window_size returns
\* W / window_size.
C15_SingleArrivalExactness ==
    [][(/\ call' = "get_max_request_rate"
        /\ Len(arrivals) = 1
        /\ query_window_size' > 0
        /\ query_look_back_time' >= query_window_size'
        /\ clock = arrivals[1][1] + query_window_size')
          => SameRate(max_request_rate',
                      <<Units(1) * arrivals[1][2], query_window_size'>>)]_vars

\* the only arrival recorded, a heavy one, has been measured one window
\* after it came
C15_Witness ==
    /\ call = "get_max_request_rate"
    /\ query_num_arrivals = 1
    /\ Len(arrivals) = 1
    /\ arrivals[1][2] > 1
    /\ query_window_size > 0
    /\ query_look_back_time > query_window_size
    /\ query_time = arrivals[1][1] + query_window_size
    /\ max_request_rate[1] > 0

(***************************************************************************)
(* C16 (the Inferline envelope against the brute-force reference).         *)
(***************************************************************************)
\* C16: for every log and every query with window_size > 0 the Inferline
\* get_max_request_rate returns the rate of the brute-force reference
\* _brute_force_max_rate.  The code samples at most ten window positions
\* and divides by window_size, also for a window cut short at the query
\* time, so the two differ.
C16_MatchesBruteForce ==
    [][(/\ call' = "get_max_request_rate"
        /\ autoscaler = "inferline"
        /\ query_window_size' > 0)
          => SameRate(max_request_rate',
                      BruteForceMaxRate(arrivals, clock, query_window_size',
                                        query_look_back_time'))]_vars

(***************************************************************************)
(* Vocabulary of the on_batch_end claims.                                  *)
(***************************************************************************)
\* both timestamps present, a positive execution time and a positive
\* number of tokens
WellFormed(b) ==
    /\ b.scheduled_at # None
    /\ b.completed_at # None
    /\ b.completed_at - b.scheduled_at > 0
    /\ Sum(b.num_tokens) > 0

\* the batch of the throughput test: 225 tokens over 10 time units
TestBatch ==
    [scheduled_at |-> Units(10), completed_at |-> Units(20),
     num_tokens |-> <<100, 50, 75>>]

(***************************************************************************)
(* C17 (EMA update).                                                       *)
(***************************************************************************)
\* C17: on_batch_end of a batch with both timestamps, execution_time > 0
\* and total_tokens > 0 sets the throughput estimate to
\* alpha * (total_tokens / execution_time) + (1 - alpha) * its previous
\* value; alpha 1/2, previous value 1 and 225 tokens over 10 time units
\* give 47/4 = 11.75.
C17_EmaUpdate ==
    [][call' = "on_batch_end" /\ WellFormed(last_batch')
          => LET alpha == Config.throughput_alpha
                 total_tokens == Sum(last_batch'.num_tokens)
                 execution_time == last_batch'.completed_at - last_batch'.scheduled_at
                 previous == replica_token_throughput
             IN /\ SameRate(replica_token_throughput',
                            <<alpha[1] * Units(1) * total_tokens * previous[2]
                                + (alpha[2] - alpha[1]) * previous[1] * execution_time,
                              alpha[2] * execution_time * previous[2]>>)
                /\ (alpha = <<1, 2>> /\ previous = <<1, 1>> /\ last_batch' = TestBatch)
                      => replica_token_throughput' = <<47, 4>>]_vars

\* the Inferline autoscaler of the throughput test has averaged the test
\* batch in
C17_Witness ==
    /\ call = "on_batch_end"
    /\ autoscaler = "inferline"
    /\ last_batch = TestBatch
    /\ replica_token_throughput = <<47, 4>>

(***************************************************************************)
(* C18 (malformed batches).                                                *)
(***************************************************************************)
\* C18: on_batch_end of a batch with a timestamp absent, with
\* completed_at - scheduled_at <= 0 or without tokens leaves the throughput
\* estimate and every other field of the autoscaler as it was.
C18_MalformedBatchIgnored ==
    [][call' = "on_batch_end" /\ ~WellFormed(last_batch')
          => UNCHANGED <<replica_token_throughput, arrivals, last_scale_up_time,
                         last_scale_down_time, num_replicas,
                         num_pending_scale_ups, num_pending_scale_downs,
                         autoscaler, service_level>>]_vars

\* a batch with two timestamps and a duration but no tokens has been
\* handed over, after which the estimate is the configured one
C18_Witness ==
    /\ call = "on_batch_end"
    /\ last_batch.scheduled_at # None
    /\ last_batch.completed_at - last_batch.scheduled_at > 0
    /\ Sum(last_batch.num_tokens) = 0
    /\ replica_token_throughput = Config.initial_replica_token_throughput
    /\ replica_token_throughput[1] > 0

(***************************************************************************)
(* C19 (division guard).                                                   *)
(***************************************************************************)
\* C19: a tune() entered with a throughput estimate <= 0 returns 0,
\* whatever the arrival log, the replica counts and the time, and leaves
\* last_scale_up_time and last_scale_down_time as they were.
C19_DivisionGuard ==
    [][call' = "tune" /\ replica_token_throughput[1] <= 0
          => /\ delta' = 0
             /\ UNCHANGED <<last_scale_up_time, last_scale_down_time>>]_vars

\* tune() has run without an estimate while an arrival was in its windows
C19_Witness ==
    /\ call = "tune"
    /\ replica_token_throughput[1] <= 0
    /\ clock > 0
    /\ arrivals # <<>>
    /\ DemandUp[1] > 0
    /\ delta = 0

(***************************************************************************)
(* C20 (window size guard).                                                *)
(***************************************************************************)
\* C20: get_max_request_rate returns 0 for every query with
\* window_size <= 0, whatever the log, the time and the look-back time.
C20_NoWindowNoRate ==
    call = "get_max_request_rate" /\ query_window_size <= 0
        => max_request_rate[1] = 0

\* a query with a negative window has returned 0 although an arrival lay
\* within its look-back time
C20_Witness ==
    /\ call = "get_max_request_rate"
    /\ query_window_size < 0
    /\ max_request_rate[1] = 0
    /\ arrivals # <<>>
    /\ arrivals[1][1] < query_time
    /\ arrivals[1][1] >= query_time - query_look_back_time


C22_DrainingSetMonotonic ==
    [][/\ replicas_to_free \subseteq replicas_to_free'
       /\ call' \in {"schedule", "add_request"}
          => replicas_to_free' = replicas_to_free
       /\ call' \in {"mark_replica_draining", "mark_replica_to_free"}
          => Cardinality(replicas_to_free' \ replicas_to_free) <= 1]_vars

\* mark_replica_to_free has added a replica to a draining set that was not
\* empty
C22_Witness ==
    /\ call = "mark_replica_to_free"
    /\ replica_to_free \in replicas_to_free
    /\ Cardinality(replicas_to_free) >= 2


(***************************************************************************)
(* C23 (replica identities come from the replica map).                     *)
(***************************************************************************)
\* C23: with replica identities that are neither contiguous nor start at 0
\* (ReplicaIds), every replica identity returned by schedule(), under
\* either policy, and by mark_replica_to_free() is a key of the replica map.
C23_IdentitiesFromReplicaMap ==
    /\ \A i \in 1..Len(request_mapping) :
          request_mapping[i][1] \in Range(replica_schedulers)
    /\ replica_to_free # None => replica_to_free \in Range(replica_schedulers)

\* a schedule() that returned pairs after mark_replica_to_free() returned an
\* identity, the identities of the map being none of 0 .. NumReplicas - 1
C23_Witness ==
    /\ call = "schedule"
    /\ Len(request_mapping) >= 2
    /\ replica_to_free # None
    /\ Range(replica_schedulers) \cap (0..(NumReplicas - 1)) = {}


(***************************************************************************)
(* C24 (Round-Robin determinism).  RRAssignment is written over the SET of *)
(* replica identities, so it cannot tell two insertion orders apart.       *)
(***************************************************************************)
\* the assignment list of a Round-Robin schedule() as a function of the set
\* of identities, the draining set, the counter and the queued requests
RRAssignment(ids, draining, counter, queue) ==
    LET candidates == sorted(ids \ draining)
        requests == sort_requests(queue)
    IN IF candidates = <<>> THEN <<>>
       ELSE [i \in 1..Len(requests) |->
               <<candidates[((counter + i - 1) % Len(candidates)) + 1],
                 requests[i]>>]

\* C24: the assignment list a Round-Robin schedule() returns is determined
\* by the set of replica identities, the draining set, the counter and the
\* queued requests: two schedulers that agree on these return the same list
\* whatever the insertion order of their replica maps.
C24_RoundRobinDeterminism ==
    [][(policy = "RR" /\ call' = "schedule") =>
          request_mapping' = RRAssignment(Range(replica_schedulers), replicas_to_free,
                                          request_counter, request_queue)]_vars

\* a Round-Robin schedule() over a replica map that was not populated in
\* ascending order returned pairs for two candidates
C24_Witness ==
    /\ policy = "RR"
    /\ call = "schedule"
    /\ replica_schedulers # sorted(Range(replica_schedulers))
    /\ Cardinality(NonDraining) = 2
    /\ Len(request_mapping) >= 2
    /\ request_counter > Len(request_mapping)


(***************************************************************************)
(* C25 (the Round-Robin cycling counter).                                  *)
(***************************************************************************)
\* the number of assignments ever returned
TotalAssigned == Sum(returned)

\* C25: the Round-Robin counter starts at 0 and no call resets or lowers
\* it; a schedule() entered with the ascending candidate list C and counter
\* c gives its i-th request (i from 0) to C[(c + i) mod |C|] and leaves the
\* counter at c plus the number of requests assigned, so the counter always
\* equals the number of requests ever assigned.
C25_CyclingCounter ==
    /\ policy = "RR" => request_counter = 0
    /\ [][policy = "RR" =>
            /\ request_counter' >= request_counter
            /\ request_counter' = TotalAssigned'
            /\ call' = "schedule" =>
                 /\ request_counter' = request_counter + Len(request_mapping')
                 /\ \A i \in 1..Len(request_mapping') :
                       LET C == sorted(NonDraining)
                       IN request_mapping'[i][1]
                            = C[((request_counter + (i - 1)) % Len(C)) + 1]]_vars

\* a Round-Robin schedule() entered with a counter that is not a multiple
\* of the number of candidates assigned several requests
C25_Witness ==
    /\ policy = "RR"
    /\ call = "schedule"
    /\ Len(request_mapping) >= 2
    /\ Cardinality(NonDraining) = 2
    /\ (request_counter - Len(request_mapping)) % 2 = 1


(***************************************************************************)
(* C26 (the selection rule of LOR).                                        *)
(***************************************************************************)
\* the place of replica r in the iteration order of the replica map
MapPosition(r) == CHOOSE i \in 1..Len(replica_schedulers) : replica_schedulers[i] = r

\* C26: every request a LOR schedule() returns is assigned to a
\* non-draining replica whose outstanding load is no larger than that of
\* any other non-draining replica, and among the replicas of that least
\* load to the one that comes first in the iteration order of the replica
\* map.
C26_LorSelectionRule ==
    [][(policy = "LOR" /\ call' = "schedule" /\ request_mapping' # <<>>) =>
          LET least == {r \in NonDraining : \A x \in NonDraining : Load(r) <= Load(x)}
              first == CHOOSE r \in least :
                          \A x \in least : MapPosition(r) <= MapPosition(x)
          IN \A i \in 1..Len(request_mapping') : request_mapping'[i][1] = first]_vars

\* a LOR schedule() broke a tie of least load in favour of the replica that
\* comes first in the map, which is not the one of the smallest identity,
\* while a replica of smaller load was draining
C26_Witness ==
    /\ policy = "LOR"
    /\ call = "schedule"
    /\ Len(request_mapping) >= 1
    /\ LET r == request_mapping[1][1]
       IN /\ \E x \in NonDraining :
                x < r /\ Load(x) = Load(r) /\ MapPosition(r) < MapPosition(x)
          /\ \E d \in replicas_to_free : Load(d) < Load(r)


(***************************************************************************)
(* C27 (the magnitude of a scale-up).                                      *)
(***************************************************************************)
\* C27: a tune() that returns a positive delta returns
\* min(target - effective replicas, max_scale_per_decision), with target =
\* ceil(demand_up / throughput_ema) and no cap in the Inferline autoscaler,
\* and sets last_scale_up_time to now.
C27_ScaleUpMagnitude ==
    [][(call' = "tune" /\ delta' > 0) =>
          /\ replica_token_throughput[1] > 0
          /\ last_scale_up_time' = clock
          /\ LET target == CeilRatio(DemandUp, replica_token_throughput)
             IN delta' = IF autoscaler = "custom"
                         THEN Min(target - CurrentReplicas,
                                  Config.max_scale_per_decision)
                         ELSE target - CurrentReplicas]_vars

\* a custom tune() has returned max_scale_per_decision, fewer replicas than
\* the target asks for
C27_Witness ==
    /\ call = "tune"
    /\ autoscaler = "custom"
    /\ delta = Config.max_scale_per_decision
    /\ last_scale_up_time = clock
    /\ CeilRatio(DemandUp, replica_token_throughput) - CurrentReplicas > delta


(***************************************************************************)
(* C28 (the scale-down decision).                                          *)
(***************************************************************************)
\* the log the scale-up query of tune() leaves to the scale-down query
LogAfterUpQuery ==
    IF autoscaler = "custom"
    THEN CustomGetMaxRequestRate(arrivals, clock, Config.min_window_size_scale_up,
                                 Config.look_back_time_scale_up).arrivals
    ELSE InferlineGetMaxRequestRate(arrivals, clock, Config.min_window_size_scale_up,
                                    Config.look_back_time_scale_up).arrivals

\* demand_down as tune() measures it, after its scale-up query
MeasuredDemandDown ==
    IF autoscaler = "custom"
    THEN CustomGetMaxRequestRate(LogAfterUpQuery, clock,
                                 Config.min_window_size_scale_down,
                                 Config.look_back_time_scale_down).rate
    ELSE InferlineGetMaxRequestRate(LogAfterUpQuery, clock,
                                    Config.min_window_size_scale_down,
                                    Config.look_back_time_scale_down).rate

\* stabilization permits a scale-down: stabilization_delay since the last
\* scale-up and, in the custom autoscaler, half of it since the last
\* scale-down
StabilizationPermits ==
    /\ Elapsed(clock, last_scale_up_time, Config.stabilization_delay)
    /\ autoscaler = "custom" =>
          \/ last_scale_down_time = NegInf
          \/ 2 * (clock - last_scale_down_time) >= Config.stabilization_delay

\* max(1, ceil(demand_down / throughput_ema)), throughput_ema > 0
TargetDown == Max(1, CeilRatio(MeasuredDemandDown, replica_token_throughput))

\* -min(effective replicas - target, max_scale_per_decision), without the
\* cap in the Inferline autoscaler
ScaleDownDelta ==
    IF autoscaler = "custom"
    THEN -Min(CurrentReplicas - TargetDown, Config.max_scale_per_decision)
    ELSE -(CurrentReplicas - TargetDown)

\* demand_down < effective replicas * throughput_ema * scale_down_threshold,
\* the under-provision gate of the custom autoscaler
UnderProvisioned ==
    autoscaler = "custom" =>
        BelowCapacity(MeasuredDemandDown, CurrentReplicas, replica_token_throughput,
                      Config.scale_down_threshold)

C29_ScaleDownCooldown ==
    [][autoscaler = "custom" =>
          /\ (call' = "tune" /\ delta' < 0) =>
                /\ last_scale_down_time' = clock
                /\ \/ last_scale_down_time = NegInf
                   \/ 2 * (clock - last_scale_down_time) >= Config.stabilization_delay
          /\ last_scale_down_time' # last_scale_down_time =>
                call' = "tune" /\ delta' < 0]_vars

\* a second scale-down has been returned, the first one registered
C29_Witness ==
    /\ autoscaler = "custom"
    /\ call = "tune"
    /\ delta < 0
    /\ last_scale_down_time = clock
    /\ num_pending_scale_downs >= 2
    /\ num_pending_scale_ups = 0


(***************************************************************************)
(* C30 (the over-provision gate of the custom autoscaler).                 *)
(***************************************************************************)
\* a threshold factor, a fraction, is at least 1 / at most 1
AtLeastOne(factor) == factor[1] >= factor[2]

AtMostOne(factor) == factor[1] <= factor[2]

\* target > effective replicas * scale_up_threshold, with target =
\* ceil(demand_up / throughput_ema)
TargetAboveThreshold ==
    CeilRatio(DemandUp, replica_token_throughput) * Config.scale_up_threshold[2]
      > CurrentReplicas * Config.scale_up_threshold[1]

StartScale(time, window_size, look_back_time) ==
    IF autoscaler = "custom" THEN 10
    ELSE Max(1, Min(10, (look_back_time \div window_size) + 1) - 1)

\* the window starts a query evaluates, in 1/StartScale
EvaluatedStarts(time, window_size, look_back_time) ==
    LET cutoff == time - look_back_time
        num_samples == Min(10, (look_back_time \div window_size) + 1)
    IN IF autoscaler = "custom"
       THEN {s \in {10 * cutoff + k * window_size :
                       k \in 0..((10 * look_back_time) \div window_size)} :
                s < 10 * time}
       ELSE IF num_samples <= 1
            THEN {Max(cutoff, time - window_size)}
            ELSE {(num_samples - 1) * cutoff + i * (time - window_size - cutoff) :
                     i \in 0..(num_samples - 1)}

\* the sum of the weights of the arrivals of log with a timestamp in the
\* half-open interval [s, e), s and e in 1/scale
WeightIn(log, s, e, scale) ==
    Sum([i \in 1..Len(log) |->
            IF s <= scale * log[i][1] /\ scale * log[i][1] < e
            THEN log[i][2] ELSE 0])

\* the rates of the windows [s, min(s + window_size, time)) over the
\* evaluated starts s: weight over actual duration
WindowRates(log, time, window_size, look_back_time) ==
    LET scale == StartScale(time, window_size, look_back_time)
        WindowEnd(s) == Min(s + scale * window_size, scale * time)
    IN {Rate(scale * WeightIn(log, s, WindowEnd(s), scale), WindowEnd(s) - s) :
           s \in {c \in EvaluatedStarts(time, window_size, look_back_time) :
                     WindowEnd(c) - c > 0}}

\* rate is the greatest of a set of rates
IsGreatestOf(rate, rates) ==
    /\ \E best \in rates : SameRate(rate, best)
    /\ \A other \in rates : ~RateLess(rate, other)

\* C31: for window_size > 0 and a log that is not empty after pruning,
\* get_max_request_rate of either envelope returns the greatest, over the
\* window starts s it evaluates, of the weight of the arrivals with a
\* timestamp in [s, min(s + window_size, now)) divided by the actual
\* duration min(s + window_size, now) - s of that window.
C31_WindowRateDefinition ==
    [][(/\ call' = "get_max_request_rate"
        /\ query_window_size' > 0
        /\ arrivals' # <<>>)
          => LET rates == WindowRates(arrivals', clock, query_window_size',
                                      query_look_back_time')
             IN IsGreatestOf(max_request_rate', rates)]_vars

\* a query has measured an arrival in a window cut short at the query time
C31_Witness ==
    /\ call = "get_max_request_rate"
    /\ query_window_size > 0
    /\ arrivals # <<>>
    /\ RateLess(<<Units(1) * Sum([i \in 1..Len(arrivals) |-> arrivals[i][2]]),
                  query_window_size>>,
                max_request_rate)


(***************************************************************************)
(* C32 (the number of windows of a query).                                 *)
(***************************************************************************)
\* window start p, a fraction, is the time t
StartsAt(p, t) == p[1] = t * p[2]

\* window start q is window start p, of the same denominator, plus
\* step[1] / step[2]
StepBetween(p, q, step) == (q[1] - p[1]) * step[2] = step[1] * p[2]

\* C32 as stated: a query with window_size > 0 sums exactly 11 windows, the
\* first starting at now - look_back_time and each next one window_size / 10
\* later.  Neither envelope does: the custom one takes as many steps of
\* window_size / 10 as the look-back time holds, the Inferline one at most
\* ten samples spread over the look-back time, and both none on an empty
\* log.
C32_ElevenPositions ==
    [][(call' = "get_max_request_rate" /\ query_window_size' > 0) =>
          /\ Len(window_starts') = 11
          /\ StartsAt(window_starts'[1], clock - query_look_back_time')
          /\ \A i \in 1..(Len(window_starts') - 1) :
                StepBetween(window_starts'[i], window_starts'[i + 1],
                            <<query_window_size', 10>>)]_vars

\* C32, amended: a query with window_size > 0 sums no window when the log
\* is empty after pruning.  Otherwise its first window starts at now -
\* look_back_time, whatever the number of arrivals; the custom envelope
\* advances by window_size / 10 while the start is before now, which makes
\* ceil(10 * look_back_time / window_size) windows; the Inferline envelope
\* sums min(10, floor(look_back_time / window_size) + 1) windows,
\* (look_back_time - window_size) / (that number - 1) apart.
C32_PositionsByLookBack ==
    [][(call' = "get_max_request_rate" /\ query_window_size' > 0) =>
          LET n == Len(window_starts')
              W == query_window_size'
              L == query_look_back_time'
          IN IF arrivals' = <<>> THEN n = 0
             ELSE /\ n >= 1
                  /\ StartsAt(window_starts'[1], clock - L)
                  /\ autoscaler = "custom" =>
                        /\ n = Ceil(10 * L, W)
                        /\ \A i \in 1..(n - 1) :
                              StepBetween(window_starts'[i], window_starts'[i + 1],
                                          <<W, 10>>)
                  /\ autoscaler = "inferline" =>
                        /\ n = Min(10, (L \div W) + 1)
                        /\ \A i \in 1..(n - 1) :
                              StepBetween(window_starts'[i], window_starts'[i + 1],
                                          <<L - W, n - 1>>)]_vars

\* a custom query has summed more than eleven windows over two arrivals
C32_Witness ==
    /\ call = "get_max_request_rate"
    /\ autoscaler = "custom"
    /\ query_window_size > 0
    /\ Len(arrivals) = 2
    /\ Len(window_starts) > 11


(***************************************************************************)
(* C33 (the two queries of tune() share one log).                          *)
(***************************************************************************)
\* now - min(look_back_time_scale_up, look_back_time_scale_down)
SharedCutoff ==
    clock - Min(Config.look_back_time_scale_up, Config.look_back_time_scale_down)

\* the arrivals of the log that are not older than the shared cutoff
RecentArrivals == SelectSeq(arrivals, LAMBDA entry : entry[1] >= SharedCutoff)

\* what a tune() entered in the current state measures and returns
Tuned ==
    IF autoscaler = "custom"
    THEN CustomTune(arrivals, clock, Config, replica_token_throughput,
                    CurrentReplicas, last_scale_up_time, last_scale_down_time)
    ELSE InferlineTune(arrivals, clock, Config, replica_token_throughput,
                       CurrentReplicas, last_scale_up_time, last_scale_down_time)

\* the rate of the scale-down query made on the recent arrivals alone
DownRateOfRecent ==
    IF autoscaler = "custom"
    THEN CustomGetMaxRequestRate(RecentArrivals, clock,
                                 Config.min_window_size_scale_down,
                                 Config.look_back_time_scale_down).rate
    ELSE InferlineGetMaxRequestRate(RecentArrivals, clock,
                                    Config.min_window_size_scale_down,
                                    Config.look_back_time_scale_down).rate

\* C33: the scale-up query of tune(now) prunes the log the scale-down
\* query then reads, so the scale-down demand is that of the arrivals with
\* timestamp >= now - min(look_back_time_scale_up,
\* look_back_time_scale_down) alone, and after tune(now) the log holds
\* exactly those arrivals, none older.
C33_SharedLogPruning ==
    [][call' = "tune" =>
          /\ arrivals' = RecentArrivals
          /\ SameRate(Tuned.required_capacity_down, DownRateOfRecent)
          /\ \A i \in 1..Len(arrivals') : arrivals'[i][1] >= SharedCutoff]_vars

\* a tune() of service level 3 (scale-up look-back 50, scale-down look-back
\* 120) has dropped an arrival 60 time units old
C33_Witness ==
    /\ call = "tune"
    /\ autoscaler = "custom"
    /\ Config.look_back_time_scale_up < Config.look_back_time_scale_down
    /\ num_arrivals = 1
    /\ arrivals = <<>>
    /\ clock < Config.look_back_time_scale_down


(***************************************************************************)
(* C34 (Round-Robin balance across calls).                                 *)
(***************************************************************************)
\* C34: with a fixed, non-empty set of non-draining replicas, after any
\* sequence of add_request and Round-Robin schedule() calls, whatever the
\* sizes of the batches, the numbers of requests assigned so far to any two
\* non-draining replicas differ by at most 1.
C34_CrossCallBalance ==
    \A a, b \in NonDraining : assigned[a] - assigned[b] <= 1

\* two calls, of one and of two requests, have given each of three
\* replicas one request
C34_Witness ==
    /\ call = "schedule"
    /\ Cardinality(NonDraining) = 3
    /\ Len(request_mapping) = 2
    /\ request_counter = 3
    /\ \A r \in NonDraining : assigned[r] = 1


(***************************************************************************)
(* C35 (eventual scheduling).                                              *)
(***************************************************************************)
QueuedIds(queue) == {queue[i].id : i \in 1..Len(queue)}

\* schedule() with every replica draining returns nothing and keeps every
\* pending request
KeptWhileAllDraining ==
    [][(call' = "schedule" /\ NonDraining = {})
          => /\ request_mapping' = <<>>
             /\ QueuedIds(request_queue') = QueuedIds(request_queue)
             /\ Len(request_queue') = Len(request_queue)]_vars

\* schedule() with a non-draining replica returns every pending request
AllReturnedTogether ==
    [][(call' = "schedule" /\ NonDraining # {})
          => /\ request_queue' = <<>>
             /\ QueuedIds(Requests(request_mapping')) = QueuedIds(request_queue)
             /\ Len(request_mapping') = Len(request_queue)]_vars

\* every request added so far has been returned, once
AllAddedReturned ==
    \A id \in 1..MaxRequests : id < next_request_id => returned[id] = 1

\* C35: a request pending while every replica is draining stays pending over
\* schedule() calls; and, schedule() being called again and again, every
\* added request is eventually returned unless every replica has become
\* draining (the draining set only grows, so that a later call finds a
\* non-draining replica exactly when the set never fills up), the call that
\* returns it returning every other pending request with it.
C35_EventualScheduling ==
    /\ KeptWhileAllDraining
    /\ AllReturnedTogether
    /\ (request_queue # <<>>)
          ~> (NonDraining = {} \/ (request_queue = <<>> /\ AllAddedReturned))

\* one call, made while a replica was draining and another was not, has
\* returned every request added, all of them together
C35_Witness ==
    /\ call = "schedule"
    /\ replicas_to_free # {}
    /\ NonDraining # {}
    /\ Len(request_mapping) >= 2
    /\ request_queue = <<>>
    /\ \A id \in 1..Len(request_mapping) : returned[id] = 1


(***************************************************************************)
(* C36 (no over-request under pending accounting).                         *)
(***************************************************************************)
\* ceil(demand_up / throughput_ema)
TargetUp == CeilRatio(DemandUp, replica_token_throughput)

\* the positive deltas returned so far: those registered in the pending
\* scale-up counter, which started at zero, and the one just returned
PositiveDeltas == num_pending_scale_ups + Max(delta, 0)

\* no scale-down has been returned: the effective replicas have changed by
\* the positive deltas alone, from num_replicas
OnlyRaised == num_pending_scale_downs = 0 /\ delta >= 0

\* C36 as stated: with demand_up and throughput_ema unchanged, the sum of
\* the positive deltas never exceeds ceil(demand_up / throughput_ema) minus
\* the initial effective replicas.  A fleet that starts above the target
\* has a sum of 0 and a negative difference.
C36_NoOverRequest ==
    (replica_token_throughput[1] > 0 /\ arrivals # <<>>)
        => PositiveDeltas <= TargetUp - num_replicas

\* C36, amended: tune() returns no positive delta when the effective
\* replicas are at or above ceil(demand_up / throughput_ema), and a positive
\* delta never takes them above it; so, with demand_up and throughput_ema
\* unchanged and the effective replicas changed by the positive deltas
\* alone, their sum never exceeds max(0, target - initial effective
\* replicas).
C36_NoOverRequestFromBelow ==
    /\ []((replica_token_throughput[1] > 0 /\ arrivals # <<>> /\ OnlyRaised)
             => PositiveDeltas <= Max(0, TargetUp - num_replicas))
    /\ [][(call' = "tune" /\ replica_token_throughput[1] > 0)
             => /\ CurrentReplicas >= TargetUp => delta' <= 0
                /\ delta' > 0 => CurrentReplicas + delta' <= TargetUp]_vars

\* the custom autoscaler reached the target in more than one capped step,
\* and the next tune() returned no delta
C36_Witness ==
    /\ autoscaler = "custom"
    /\ call = "tune"
    /\ delta = 0
    /\ OnlyRaised
    /\ arrivals # <<>>
    /\ num_pending_scale_ups > Config.max_scale_per_decision
    /\ num_replicas + num_pending_scale_ups = TargetUp


(***************************************************************************)
(* C37 (the throughput estimate stays positive).                           *)
(***************************************************************************)
Positive(rate) == rate[1] > 0 /\ rate[2] > 0

\* smoothing factors in (0, 1]: a small one, the configured ones, and 1
Alphas == {<<1, 10>>, <<1, 1>>} \cup
          {CustomConfig(level).throughput_alpha : level \in {1, 2, 3}} \cup
          {InferlineConfig.throughput_alpha}

\* C37: started from a positive initial throughput with 0 < alpha <= 1, the
\* throughput estimate is strictly positive after any sequence of
\* on_batch_end calls, with valid or malformed batches, and stays so under
\* one more call with any such alpha; so the "throughput <= 0" guard of
\* tune() is never taken.
C37_ThroughputStaysPositive ==
    /\ Positive(replica_token_throughput)
    /\ ~(replica_token_throughput[1] <= 0)
    /\ \A b \in Batches, alpha \in Alphas :
          Positive(OnBatchEndThroughput(b, alpha, replica_token_throughput))

\* a valid batch has been averaged into the estimate
C37_Witness ==
    /\ num_batches >= 1
    /\ ~SameRate(replica_token_throughput, Config.initial_replica_token_throughput)
    /\ Positive(replica_token_throughput)


(***************************************************************************)
(* C38 (the sampled envelope against the exact sliding-window maximum).    *)
(***************************************************************************)
\* every window start in [time - look_back_time, time) at the resolution
\* 1/StartScale: the cutoff, every arrival time and every start the
\* implementation evaluates are among them
EveryStart(time, window_size, look_back_time) ==
    LET scale == StartScale(time, window_size, look_back_time)
    IN (scale * (time - look_back_time))..(scale * time - 1)

\* the rates of the windows [s, min(s + window_size, time)) over every
\* start s: weight over actual duration
ExactRates(log, time, window_size, look_back_time) ==
    LET scale == StartScale(time, window_size, look_back_time)
        WindowEnd(s) == Min(s + scale * window_size, scale * time)
    IN {Rate(scale * WeightIn(log, s, WindowEnd(s), scale), WindowEnd(s) - s) :
           s \in EveryStart(time, window_size, look_back_time)}

\* rate is at most the greatest of a set of rates
AtMostGreatestOf(rate, rates) == \E best \in rates : ~RateLess(best, rate)

\* C38: for every log and every query with window_size > 0, the rate
\* get_max_request_rate returns (custom fixed-step and Inferline sampled
\* alike) is at most the exact sliding-window maximum, the greatest rate
\* of a window [s, min(s + window_size, now)) over every start s in
\* [now - look_back_time, now), which is what _brute_force_max_rate of the
\* envelope tests computes.
C38_NeverOverEstimates ==
    [][(call' = "get_max_request_rate" /\ query_window_size' > 0)
          => /\ AtMostGreatestOf(max_request_rate',
                                 ExactRates(arrivals, clock, query_window_size',
                                            query_look_back_time'))
             /\ ~RateLess(BruteForceMaxRate(arrivals, clock, query_window_size',
                                            query_look_back_time'),
                          max_request_rate')]_vars

\* a query has returned a positive rate below the exact maximum
C38_Witness ==
    /\ call = "get_max_request_rate"
    /\ query_window_size > 0
    /\ query_time = clock
    /\ RateLess(Zero, max_request_rate)
    /\ RateLess(max_request_rate,
                BruteForceMaxRate(arrivals, clock, query_window_size,
                                  query_look_back_time))


(***************************************************************************)
(* C39 (the state each autoscaler operation touches).                      *)
(***************************************************************************)
\* prefill + decode tokens of the requests that arrive
ArrivingWeights == {shape[1] + shape[2] : shape \in RequestShapes}

\* the log has grown by the one entry (now, weight) and by nothing else
OneEntryAppended ==
    /\ Len(arrivals') = Len(arrivals) + 1
    /\ SubSeq(arrivals', 1, Len(arrivals)) = arrivals
    /\ arrivals'[Len(arrivals')][1] = clock
    /\ arrivals'[Len(arrivals')][2] \in ArrivingWeights

\* the fleet and the pending counters, which the driver owns
fleetVars == <<num_replicas, num_pending_scale_ups, num_pending_scale_downs>>

\* C39: on_request_arrival only appends one (arrival time, prefill +
\* decode tokens) entry to the arrival log; on_batch_end changes nothing
\* but the throughput estimate; tune() never changes the throughput
\* estimate, changes last_scale_up_time only when it returns a positive
\* delta and last_scale_down_time only in the custom autoscaler when it
\* returns a negative delta.
C39_DisjointState ==
    [][/\ call' = "on_request_arrival" =>
             /\ OneEntryAppended
             /\ UNCHANGED <<replica_token_throughput, last_scale_up_time,
                            last_scale_down_time, fleetVars, clock>>
       /\ call' = "on_batch_end" =>
             UNCHANGED <<arrivals, last_scale_up_time, last_scale_down_time,
                         fleetVars, clock>>
       /\ call' = "tune" =>
             /\ UNCHANGED replica_token_throughput
             /\ last_scale_up_time' # last_scale_up_time => delta' > 0
             /\ last_scale_down_time' # last_scale_down_time =>
                   autoscaler = "custom" /\ delta' < 0]_vars

\* a custom tune() has returned a negative delta and stamped
\* last_scale_down_time, on a log that holds a recorded arrival and with an
\* estimate a batch has changed
C39_Witness ==
    /\ autoscaler = "custom"
    /\ call = "tune"
    /\ delta < 0
    /\ last_scale_down_time = clock
    /\ num_arrivals >= 1
    /\ num_batches >= 1
    /\ ~SameRate(replica_token_throughput, Config.initial_replica_token_throughput)

=============================================================================
